---- MODULE Spec2Model ----
(***************************************************************************)
(* location-sync: the Cloudflare Worker of src/src/index.ts over its D1    *)
(* table `locations` (src/migrations).  The store is the table, one row    *)
(* per sequence element (the row id is the index: AUTOINCREMENT, no        *)
(* delete).  Every handler is cut at its awaits on the store: one action   *)
(* per store call, together with all the synchronous code that follows it  *)
(* up to the next await or the return.  `get` is the last read served,     *)
(* `norm` a string under the timestamp normalizer and `calls` the batch    *)
(* calls (env.DB.batch) of the paged handlers where a page's call is cut   *)
(* into its issue and its resolution.                                      *)
(***************************************************************************)
EXTENDS Integers, Sequences, FiniteSets, TLC

VARIABLES store, post, batch, bf, faulted, get, norm, calls

vars == <<store, post, batch, bf, faulted, get, norm, calls>>

(***************************************************************************)
(* Bounds of the model.                                                    *)
(***************************************************************************)
MaxPosts == 1
MaxBatches == 1
MaxRequests == 3
MaxLegacy == 1
MaxSweeps == 3
MaxCalls == 2
MaxRows == 2
MaxTail == 6
MaxNormalize == 2
MaxPagedRuns == 1
MaxRadius == 60

Procs == {1, 2}

(***************************************************************************)
(* JavaScript values.  A coordinate is a record [k, n]: k is the kind of   *)
(* the value (undefined, null, a number, a string that is no number) and n *)
(* the number when it is one.  String-typed fields are strings, with       *)
(* "undefined" and "null" for the two empty values.                        *)
(***************************************************************************)
Undefined == [k |-> "undefined", n |-> 0]
Null == [k |-> "null", n |-> 0]
NonNumeric == [k |-> "string", n |-> 0]
Num(x) == [k |-> "number", n |-> x]

\* a ?? b on a coordinate
Coalesce(v, d) == IF v.k \in {"undefined", "null"} THEN d ELSE v
\* a ?? b on a string field
CoalesceStr(s, d) == IF s \in {"undefined", "null"} THEN d ELSE s
\* if (x) on a string
Truthy(s) == s \notin {"undefined", "null", ""}
\* isNaN(Number(v)) for a value that is not null or undefined
IsNaN(v) == v.k # "number"

Min(a, b) == IF a < b THEN a ELSE b

(***************************************************************************)
(* The hex grid (h3-js).  A cell is [res, a, b]; resolution 9 cells are    *)
(* the unit squares of the integer grid and a resolution 7 cell holds 4 x 4 *)
(* of them.  NoCell is the SQL NULL of the two columns.                    *)
(***************************************************************************)
NoCell == [res |-> 0, a |-> 0, b |-> 0]

latLngToCell(la, lo, res) ==
    IF res = 7 THEN [res |-> 7, a |-> la \div 4, b |-> lo \div 4]
               ELSE [res |-> 9, a |-> la, b |-> lo]

\* a plausible slip: the NaN guard on lat covers the first column only
computeH3_halfGuard(lat, lon) ==
    IF lat.k \in {"undefined", "null"} \/ lon.k \in {"undefined", "null"}
    THEN [h3_res7 |-> NoCell, h3_res9 |-> NoCell]
    ELSE IF IsNaN(lon)
    THEN [h3_res7 |-> NoCell, h3_res9 |-> NoCell]
    ELSE [h3_res7 |-> IF IsNaN(lat) THEN NoCell ELSE latLngToCell(lat.n, lon.n, 7),
          h3_res9 |-> latLngToCell(lat.n, lon.n, 9)]

\* a plausible slip: no index is computed at write time
computeH3_none(lat, lon) == [h3_res7 |-> NoCell, h3_res9 |-> NoCell]

\* a plausible slip: the arguments of latLngToCell in the wrong order
computeH3_swapped(lat, lon) ==
    IF lat.k \in {"undefined", "null"} \/ lon.k \in {"undefined", "null"}
    THEN [h3_res7 |-> NoCell, h3_res9 |-> NoCell]
    ELSE IF IsNaN(lat) \/ IsNaN(lon)
    THEN [h3_res7 |-> NoCell, h3_res9 |-> NoCell]
    ELSE [h3_res7 |-> latLngToCell(lon.n, lat.n, 7),
          h3_res9 |-> latLngToCell(lon.n, lat.n, 9)]

computeH3(lat, lon) ==
    IF lat.k \in {"undefined", "null"} \/ lon.k \in {"undefined", "null"}
    THEN [h3_res7 |-> NoCell, h3_res9 |-> NoCell]
    ELSE IF IsNaN(lat) \/ IsNaN(lon)
    THEN [h3_res7 |-> NoCell, h3_res9 |-> NoCell]
    ELSE [h3_res7 |-> latLngToCell(lat.n, lon.n, 7),
          h3_res9 |-> latLngToCell(lat.n, lon.n, 9)]

(***************************************************************************)
(* The table.  Row(...) is one row; op and req are history (which handler  *)
(* wrote the row, in which request), not columns.                          *)
(***************************************************************************)
Row(ts, lat, lon, source, h3, op, req) ==
    [timestamp |-> ts, lat |-> lat, lon |-> lon, source |-> source,
     h3_res7 |-> h3.h3_res7, h3_res9 |-> h3.h3_res9, op |-> op, req |-> req]

\* timestamp TEXT NOT NULL, lat REAL NOT NULL, lon REAL NOT NULL
NotNullOK(r) == r.timestamp # "null" /\ r.lat.k # "null" /\ r.lon.k # "null"

\* D1's bind() throws on undefined, before anything is sent to the store
Bindable(r) == r.timestamp # "undefined" /\ r.lat.k # "undefined" /\ r.lon.k # "undefined"

\* WHERE h3_res7 IS NULL AND lat IS NOT NULL AND lon IS NOT NULL
Unindexed(r) == r.h3_res7 = NoCell /\ r.lat.k # "null" /\ r.lon.k # "null"

CountUnindexed(s) == Cardinality({id \in 1..Len(s) : Unindexed(s[id])})

Now == "2024-01-02T00:00:00.000Z"
\* new Date(sec * 1000).toISOString()
ToISOString(sec) ==
    IF sec = 1700000000 THEN "2023-11-14T22:13:20.000Z" ELSE "1970-01-01T00:00:00.000Z"

(***************************************************************************)
(* POST /locations.  A body is [type, lat, lon, tst, timestamp, source];   *)
(* tst = 0 stands for an absent (or zero, equally falsy) tst.              *)
(* handlePostLocation(body, req) is the synchronous part of the handler:   *)
(* the INSERT it builds, if any, and the response it returns once that     *)
(* statement has run.                                                      *)
(***************************************************************************)
NoRow == Row("null", Null, Null, "null", computeH3(Null, Null), "none", 0)

OwnTracksTimestamp(body) ==
    IF body.tst # 0 THEN ToISOString(body.tst) ELSE Now

\* a plausible slip: the guard on the unrecognised type tags is lost
handlePostLocation_noIgnore(body, req) ==
    IF body.type = "location"
    THEN [stmt |-> TRUE, code |-> 200, out |-> "[]",
          row |-> Row(OwnTracksTimestamp(body), body.lat, body.lon, "owntracks",
                      computeH3(body.lat, body.lon), "post", req)]
    ELSE IF body.type = "waypoint" /\ body.lat.k # "undefined" /\ body.lon.k # "undefined"
    THEN [stmt |-> TRUE, code |-> 200, out |-> "[]",
          row |-> Row(OwnTracksTimestamp(body), body.lat, body.lon, "owntracks:waypoint",
                      computeH3(body.lat, body.lon), "post", req)]
    ELSE IF body.type = "transition" /\ body.lat.k # "undefined" /\ body.lon.k # "undefined"
    THEN [stmt |-> TRUE, code |-> 200, out |-> "[]",
          row |-> Row(OwnTracksTimestamp(body), body.lat, body.lon, "owntracks:transition",
                      computeH3(body.lat, body.lon), "post", req)]
    ELSE IF body.lat.k # "undefined" /\ body.lon.k # "undefined"
    THEN [stmt |-> TRUE, code |-> 201, out |-> "ok",
          row |-> Row(CoalesceStr(body.timestamp, Now), body.lat, body.lon,
                      CoalesceStr(body.source, "manual"),
                      computeH3(body.lat, body.lon), "post", req)]
    ELSE [stmt |-> FALSE, code |-> 400, out |-> "error", row |-> NoRow]

\* a plausible slip: every tracker message is stored under the one source tag
handlePostLocation_oneSource(body, req) ==
    IF body.type = "location"
    THEN [stmt |-> TRUE, code |-> 200, out |-> "[]",
          row |-> Row(OwnTracksTimestamp(body), body.lat, body.lon, "owntracks",
                      computeH3(body.lat, body.lon), "post", req)]
    ELSE IF body.type = "waypoint" /\ body.lat.k # "undefined" /\ body.lon.k # "undefined"
    THEN [stmt |-> TRUE, code |-> 200, out |-> "[]",
          row |-> Row(OwnTracksTimestamp(body), body.lat, body.lon, "owntracks",
                      computeH3(body.lat, body.lon), "post", req)]
    ELSE IF body.type = "transition" /\ body.lat.k # "undefined" /\ body.lon.k # "undefined"
    THEN [stmt |-> TRUE, code |-> 200, out |-> "[]",
          row |-> Row(OwnTracksTimestamp(body), body.lat, body.lon, "owntracks",
                      computeH3(body.lat, body.lon), "post", req)]
    ELSE IF Truthy(body.type)
    THEN [stmt |-> FALSE, code |-> 200, out |-> "[]", row |-> NoRow]
    ELSE IF body.lat.k # "undefined" /\ body.lon.k # "undefined"
    THEN [stmt |-> TRUE, code |-> 201, out |-> "ok",
          row |-> Row(CoalesceStr(body.timestamp, Now), body.lat, body.lon,
                      CoalesceStr(body.source, "manual"),
                      computeH3(body.lat, body.lon), "post", req)]
    ELSE [stmt |-> FALSE, code |-> 400, out |-> "error", row |-> NoRow]

handlePostLocation(body, req) ==
    IF body.type = "location"
    THEN [stmt |-> TRUE, code |-> 200, out |-> "[]",
          row |-> Row(OwnTracksTimestamp(body), body.lat, body.lon, "owntracks",
                      computeH3(body.lat, body.lon), "post", req)]
    ELSE IF body.type = "waypoint" /\ body.lat.k # "undefined" /\ body.lon.k # "undefined"
    THEN [stmt |-> TRUE, code |-> 200, out |-> "[]",
          row |-> Row(OwnTracksTimestamp(body), body.lat, body.lon, "owntracks:waypoint",
                      computeH3(body.lat, body.lon), "post", req)]
    ELSE IF body.type = "transition" /\ body.lat.k # "undefined" /\ body.lon.k # "undefined"
    THEN [stmt |-> TRUE, code |-> 200, out |-> "[]",
          row |-> Row(OwnTracksTimestamp(body), body.lat, body.lon, "owntracks:transition",
                      computeH3(body.lat, body.lon), "post", req)]
    ELSE IF Truthy(body.type)
    THEN [stmt |-> FALSE, code |-> 200, out |-> "[]", row |-> NoRow]
    ELSE IF body.lat.k # "undefined" /\ body.lon.k # "undefined"
    THEN [stmt |-> TRUE, code |-> 201, out |-> "ok",
          row |-> Row(CoalesceStr(body.timestamp, Now), body.lat, body.lon,
                      CoalesceStr(body.source, "manual"),
                      computeH3(body.lat, body.lon), "post", req)]
    ELSE [stmt |-> FALSE, code |-> 400, out |-> "error", row |-> NoRow]

\* the record of the last POST /locations: its body, its response, the number of
\* statements it sent to the store, and whether the store was unavailable to it
PostDone(n, body, code, out, sent, fault) ==
    [n |-> n, body |-> body, code |-> code, out |-> out, sent |-> sent, fault |-> fault]

NoBody == [type |-> "undefined", lat |-> Undefined, lon |-> Undefined, tst |-> 0,
           timestamp |-> "undefined", source |-> "undefined"]

\* One call of the handler.  An exception leaves the handler and the runtime
\* answers 500.
PostLocation(body, more) ==
    /\ more
    /\ LET plan == handlePostLocation(body, post.n + 1) IN
       \/ /\ ~plan.stmt
          /\ post' = PostDone(post.n + 1, body, plan.code, plan.out, 0, FALSE)
          /\ UNCHANGED <<store, faulted>>
       \/ /\ plan.stmt /\ ~Bindable(plan.row)
          /\ post' = PostDone(post.n + 1, body, 500, "exception", 0, FALSE)
          /\ UNCHANGED <<store, faulted>>
       \/ /\ plan.stmt /\ Bindable(plan.row) /\ NotNullOK(plan.row)
          /\ store' = Append(store, plan.row)
          /\ post' = PostDone(post.n + 1, body, plan.code, plan.out, 1, FALSE)
          /\ UNCHANGED faulted
       \/ /\ plan.stmt /\ Bindable(plan.row) /\ ~NotNullOK(plan.row)
          /\ post' = PostDone(post.n + 1, body, 500, "exception", 1, FALSE)
          /\ UNCHANGED <<store, faulted>>
       \/ /\ plan.stmt /\ Bindable(plan.row)
          /\ faulted' = TRUE
          /\ post' = PostDone(post.n + 1, body, 500, "exception", 1, TRUE)
          /\ UNCHANGED store
    /\ UNCHANGED <<batch, bf, get, norm, calls>>

TypeTags == {"location", "waypoint", "transition", "status", "", "undefined"}
LatValues == {Undefined, Null, NonNumeric, Num(35)}
LonValues == {Undefined, Null, NonNumeric, Num(139)}

PostBodies ==
    {[type |-> t, lat |-> la, lon |-> lo, tst |-> 0, timestamp |-> "undefined", source |-> s] :
        t \in TypeTags, la \in LatValues, lo \in LonValues, s \in {"undefined", "app"}}
    \cup {[type |-> "location", lat |-> Num(35), lon |-> Num(139), tst |-> 1700000000,
           timestamp |-> "undefined", source |-> "undefined"],
          [type |-> "undefined", lat |-> Num(35), lon |-> Num(139), tst |-> 0,
           timestamp |-> "2024-01-01T12:00:00+0900", source |-> "null"]}

(***************************************************************************)
(* POST /locations/batch.  A body is [shape, locations]: shape tells what  *)
(* request.json() gave ("missing": it rejects, the body is no JSON; "null": *)
(* null; "scalar": a number, string, boolean or array; "nolocations": an   *)
(* object without the key; "notarray": locations is no array; "list": an   *)
(* array), locations the array.  A location is [timestamp, lat, lon,       *)
(* source].                                                                *)
(***************************************************************************)
batchSize == 100

BatchRow(loc, req) ==
    Row(CoalesceStr(loc.timestamp, "null"), Coalesce(loc.lat, Null), Coalesce(loc.lon, Null),
        CoalesceStr(loc.source, "null"), computeH3(loc.lat, loc.lon), "batch", req)

\* body.locations.slice(i, i + batchSize)
Slice(list, i, j) == SubSeq(list, i + 1, Min(j, Len(list)))

BatchResp(code, imported, errors, total) ==
    [code |-> code, imported |-> imported, errors |-> errors, total |-> total]

BatchIdle ==
    [n |-> 0, pc |-> "idle", req |-> 0, shape |-> "none", locations |-> <<>>, i |-> 0,
     imported |-> 0, errors |-> 0, pages |-> <<>>, size0 |-> 0,
     resp |-> BatchResp(0, 0, 0, 0)]

\* lines 345-354: parse, check the shape, enter the loop (or return at once when
\* there is no page to submit)
BatchStart(body, more) ==
    /\ batch.pc \in {"idle", "done"}
    /\ more
    /\ LET b == [BatchIdle EXCEPT !.n = batch.n + 1, !.req = batch.n + 1,
                                  !.shape = body.shape, !.size0 = Len(store)] IN
       \/ /\ body.shape \in {"missing", "null"}
          /\ batch' = [b EXCEPT !.pc = "done", !.resp = BatchResp(500, 0, 0, 0)]
       \/ /\ body.shape \in {"scalar", "nolocations", "notarray"}
          /\ batch' = [b EXCEPT !.pc = "done", !.resp = BatchResp(400, 0, 0, 0)]
       \/ /\ body.shape = "list" /\ Len(body.locations) = 0
          /\ batch' = [b EXCEPT !.pc = "done", !.resp = BatchResp(200, 0, 0, 0)]
       \/ /\ body.shape = "list" /\ Len(body.locations) > 0
          /\ batch' = [b EXCEPT !.pc = "loop", !.locations = body.locations]
    /\ UNCHANGED <<store, post, bf, faulted, get, norm, calls>>

\* a plausible slip: a failed page is not counted
BatchAdvance_dropErrors(b, chunk, ok) ==
    LET i2 == b.i + batchSize
        imported2 == IF ok THEN b.imported + Len(chunk) ELSE b.imported
        b2 == [b EXCEPT !.i = i2, !.imported = imported2,
                        !.pages = Append(@, [offset |-> b.i, size |-> Len(chunk), ok |-> ok])]
    IN IF i2 < Len(b.locations)
       THEN b2
       ELSE [b2 EXCEPT !.pc = "done",
                       !.resp = BatchResp(200, imported2, b.errors, Len(b.locations))]

\* a plausible slip: the loop stops at the first failed page
BatchAdvance_abort(b, chunk, ok) ==
    LET i2 == b.i + batchSize
        imported2 == IF ok THEN b.imported + Len(chunk) ELSE b.imported
        errors2 == IF ok THEN b.errors ELSE b.errors + Len(chunk)
        b2 == [b EXCEPT !.i = i2, !.imported = imported2, !.errors = errors2,
                        !.pages = Append(@, [offset |-> b.i, size |-> Len(chunk), ok |-> ok])]
    IN IF i2 < Len(b.locations) /\ ok
       THEN b2
       ELSE [b2 EXCEPT !.pc = "done",
                       !.resp = BatchResp(200, imported2, errors2, Len(b.locations))]

\* lines 379-393: the counters after the page's batch call resolved (ok) or
\* rejected (~ok), the loop step, and the response after the last page
BatchAdvance(b, chunk, ok) ==
    LET i2 == b.i + batchSize
        imported2 == IF ok THEN b.imported + Len(chunk) ELSE b.imported
        errors2 == IF ok THEN b.errors ELSE b.errors + Len(chunk)
        b2 == [b EXCEPT !.i = i2, !.imported = imported2, !.errors = errors2,
                        !.pages = Append(@, [offset |-> b.i, size |-> Len(chunk), ok |-> ok])]
    IN IF i2 < Len(b.locations)
       THEN b2
       ELSE [b2 EXCEPT !.pc = "done",
                       !.resp = BatchResp(200, imported2, errors2, Len(b.locations))]

\* lines 356-386: one page.  env.DB.batch is one transaction: every INSERT of the
\* page is applied, or none.
BatchPage ==
    /\ batch.pc = "loop"
    /\ LET chunk == Slice(batch.locations, batch.i, batch.i + batchSize)
           stmts == [j \in 1..Len(chunk) |-> BatchRow(chunk[j], batch.req)]
           valid == {j \in 1..Len(stmts) : ~NotNullOK(stmts[j])} = {}
       IN \/ /\ valid
             /\ store' = store \o stmts
             /\ batch' = BatchAdvance(batch, chunk, TRUE)
             /\ UNCHANGED faulted
          \/ /\ ~valid
             /\ batch' = BatchAdvance(batch, chunk, FALSE)
             /\ UNCHANGED <<store, faulted>>
          \/ /\ faulted' = TRUE
             /\ batch' = BatchAdvance(batch, chunk, FALSE)
             /\ UNCHANGED store
    /\ UNCHANGED <<post, bf, get, norm, calls>>

Fill(n, loc) == [j \in 1..n |-> loc]
WithAt(list, pos, loc) == [list EXCEPT ![pos] = loc]
ListBody(list) == [shape |-> "list", locations |-> list]

GoodLoc == [timestamp |-> "2024-01-01T12:00:00+0900", lat |-> Num(36), lon |-> Num(140),
            source |-> "path"]
NoLatLoc == [GoodLoc EXCEPT !.lat = Undefined]
TextLoc == [GoodLoc EXCEPT !.lat = NonNumeric]
NoTimeLoc == [GoodLoc EXCEPT !.timestamp = "undefined"]

MalformedBodies ==
    {[shape |-> sh, locations |-> <<>>] : sh \in {"null", "nolocations", "notarray"}}

\* the other bodies that are no wrapper: no JSON at all, and a JSON number, string,
\* boolean or array
UnwrappedBodies == {[shape |-> sh, locations |-> <<>>] : sh \in {"missing", "scalar"}}

\* the bodies of the interleaved runs: at most one page each
SmallBatchBodies ==
    MalformedBodies
    \cup {ListBody(<<>>), ListBody(<<GoodLoc, TextLoc>>), ListBody(<<GoodLoc, NoLatLoc>>)}

\* the bodies of the paging runs
ListLengths == {0, 1, 99, 100, 101, 200, 250}
PagedBatchBodies ==
    MalformedBodies \cup UnwrappedBodies
    \cup {ListBody(Fill(n, GoodLoc)) : n \in ListLengths}
    \cup {ListBody(WithAt(Fill(250, GoodLoc), pos, NoLatLoc)) : pos \in {100, 101, 250}}
    \cup {ListBody(WithAt(Fill(250, GoodLoc), 150, NoTimeLoc)),
          ListBody(WithAt(Fill(101, GoodLoc), 101, TextLoc))}

(***************************************************************************)
(* POST /locations/backfill-h3.  bf[p] is the invocation that process p    *)
(* runs: its selection (rows), its place in the loop, and the response     *)
(* once it returned.  pc = "failed": a store call rejected, the exception  *)
(* left the handler and no response of the handler exists.                 *)
(***************************************************************************)
selectLimit == 1000

BackfillResp(status, updated, remaining, total) ==
    [status |-> status, updated |-> updated, remaining |-> remaining, total_records |-> total]

BackfillIdle ==
    [n |-> 0, pc |-> "idle", rows |-> <<>>, i |-> 0, updated |-> 0, writes |-> 0,
     resp |-> BackfillResp("none", 0, 0, 0)]

\* SELECT id, lat, lon ... WHERE h3_res7 IS NULL AND lat IS NOT NULL AND lon IS NOT NULL
\* LIMIT 1000, in the order of the row ids
SelectUnindexed(s) ==
    LET ids == SelectSeq([id \in 1..Len(s) |-> id], LAMBDA id : Unindexed(s[id]))
    IN [j \in 1..Min(Len(ids), selectLimit) |->
           [id |-> ids[j], lat |-> s[ids[j]].lat, lon |-> s[ids[j]].lon]]

\* a plausible slip: the index is computed once per chunk, from its first row
ApplyUpdates_firstRow(s, chunk) ==
    LET h3 == computeH3(chunk[1].lat, chunk[1].lon)
    IN [id \in 1..Len(s) |->
           IF id \in {chunk[j].id : j \in 1..Len(chunk)}
           THEN [s[id] EXCEPT !.h3_res7 = h3.h3_res7, !.h3_res9 = h3.h3_res9]
           ELSE s[id]]

\* a plausible slip: the UPDATE has lost its WHERE id = ?
ApplyUpdates_noWhere(s, chunk) ==
    LET h3 == computeH3(chunk[Len(chunk)].lat, chunk[Len(chunk)].lon)
    IN [id \in 1..Len(s) |-> [s[id] EXCEPT !.h3_res7 = h3.h3_res7, !.h3_res9 = h3.h3_res9]]

\* UPDATE locations SET h3_res7 = ?, h3_res9 = ? WHERE id = ?, for every row of the chunk
ApplyUpdates(s, chunk) ==
    LET at == [id \in {chunk[j].id : j \in 1..Len(chunk)} |->
                  CHOOSE j \in 1..Len(chunk) : chunk[j].id = id]
    IN [id \in 1..Len(s) |->
           IF id \in DOMAIN at
           THEN LET h3 == computeH3(chunk[at[id]].lat, chunk[at[id]].lon)
                IN [s[id] EXCEPT !.h3_res7 = h3.h3_res7, !.h3_res9 = h3.h3_res9]
           ELSE s[id]]

\* the requests received so far; `more` in the actions that receive a request
\* bounds them
Requests == post.n + batch.n + bf[1].n + bf[2].n

\* lines 398-414: the selection, and the branch on an empty one
BackfillSelect(p, more) ==
    /\ bf[p].pc \in {"idle", "done", "failed"}
    /\ more
    /\ LET b == [BackfillIdle EXCEPT !.n = bf[p].n + 1] IN
       \/ /\ LET rows == SelectUnindexed(store) IN
             bf' = [bf EXCEPT ![p] =
                       IF Len(rows) = 0 THEN [b EXCEPT !.pc = "empty"]
                                        ELSE [b EXCEPT !.pc = "loop", !.rows = rows]]
          /\ UNCHANGED faulted
       \/ /\ bf' = [bf EXCEPT ![p] = [b EXCEPT !.pc = "failed"]]
          /\ faulted' = TRUE
    /\ UNCHANGED <<store, post, batch, get, norm, calls>>

\* lines 405-413: SELECT COUNT(*) and the response of an empty selection
BackfillNothing(p) ==
    /\ bf[p].pc = "empty"
    /\ \/ /\ bf' = [bf EXCEPT ![p].pc = "done",
                              ![p].resp = BackfillResp("complete", 0, 0, Len(store))]
          /\ UNCHANGED faulted
       \/ /\ bf' = [bf EXCEPT ![p].pc = "failed"]
          /\ faulted' = TRUE
    /\ UNCHANGED <<store, post, batch, get, norm, calls>>

\* lines 420-431: one page of UPDATEs, one transaction; the await is outside any
\* try, so a rejected page ends the invocation
BackfillPage(p) ==
    /\ bf[p].pc = "loop"
    /\ LET chunk == Slice(bf[p].rows, bf[p].i, bf[p].i + batchSize)
           i2 == bf[p].i + batchSize
       IN \/ /\ store' = ApplyUpdates(store, chunk)
             /\ bf' = [bf EXCEPT ![p].i = i2,
                                 ![p].updated = @ + Len(chunk),
                                 ![p].writes = @ + 1,
                                 ![p].pc = IF i2 < Len(bf[p].rows) THEN "loop" ELSE "count"]
             /\ UNCHANGED faulted
          \/ /\ bf' = [bf EXCEPT ![p].pc = "failed", ![p].writes = @ + 1]
             /\ faulted' = TRUE
             /\ UNCHANGED store
    /\ UNCHANGED <<post, batch, get, norm, calls>>

\* a plausible slip: the status is taken from the selection, not from the re-count
BackfillStatus_fromSelection(remaining, updated) ==
    IF updated >= selectLimit THEN "in_progress" ELSE "complete"

\* line 440
BackfillStatus(remaining, updated) ==
    IF remaining > 0 THEN "in_progress" ELSE "complete"

\* lines 434-443: the re-count and the response
BackfillCount(p) ==
    /\ bf[p].pc = "count"
    /\ \/ /\ LET remaining == CountUnindexed(store) IN
             bf' = [bf EXCEPT ![p].pc = "done",
                              ![p].resp = BackfillResp(BackfillStatus(remaining, bf[p].updated),
                                                       bf[p].updated, remaining, 0)]
          /\ UNCHANGED faulted
       \/ /\ bf' = [bf EXCEPT ![p].pc = "failed"]
          /\ faulted' = TRUE
    /\ UNCHANGED <<store, post, batch, get, norm, calls>>

(***************************************************************************)
(* Timestamps in SQL.  A timestamp is the string the row holds; "null" is  *)
(* SQL NULL.  GLOB, substr, datetime and the comparison of two TEXT values *)
(* are computed on the characters, as SQLite computes them.                *)
(***************************************************************************)
Digits == {"0", "1", "2", "3", "4", "5", "6", "7", "8", "9"}

\* the characters of the model's strings, in the order of their codes
Ascii == " +-.0123456789:TZabcdefghijklmnopqrstuvwxyz"

Code(c) == CHOOSE i \in 1..Len(Ascii) : SubSeq(Ascii, i, i) = c

CharAt(s, i) == SubSeq(s, i, i)

\* substr(X, Y, Z) with Y >= 1
substr(s, y, z) == SubSeq(s, y, Min(y + z - 1, Len(s)))

\* substr(X, -Z): the last Z characters
substrTail(s, z) == SubSeq(s, IF Len(s) > z THEN Len(s) - z + 1 ELSE 1, Len(s))

\* X GLOB pattern; a pattern is a sequence of [star, set]: `*`, or one
\* character of the set
Star == [star |-> TRUE, set |-> {}]
OneOf(S) == [star |-> FALSE, set |-> S]

RECURSIVE Glob(_, _)
Glob(pat, s) ==
    IF Len(pat) = 0 THEN Len(s) = 0
    ELSE IF Head(pat).star
    THEN \E i \in 0..Len(s) : Glob(Tail(pat), SubSeq(s, i + 1, Len(s)))
    ELSE /\ Len(s) > 0
         /\ CharAt(s, 1) \in Head(pat).set
         /\ Glob(Tail(pat), SubSeq(s, 2, Len(s)))

\* '*[+-][0-9][0-9][0-9][0-9]'
OffsetPattern == <<Star, OneOf({"+", "-"}), OneOf(Digits), OneOf(Digits), OneOf(Digits),
                   OneOf(Digits)>>

\* a plausible slip: the colon goes before the last two characters of every
\* string that ends in two digits
TS_NORM_anyDigits(timestamp) ==
    IF Glob(<<Star, OneOf(Digits), OneOf(Digits)>>, timestamp)
    THEN substr(timestamp, 1, Len(timestamp) - 2) \o ":" \o substrTail(timestamp, 2)
    ELSE timestamp

\* lines 118-120
TS_NORM(timestamp) ==
    IF Glob(OffsetPattern, timestamp)
    THEN substr(timestamp, 1, Len(timestamp) - 2) \o ":" \o substrTail(timestamp, 2)
    ELSE timestamp

IsDigits(s) == \A i \in 1..Len(s) : CharAt(s, i) \in Digits

DigitVal(c) == Code(c) - Code("0")

RECURSIVE ToNat(_)
ToNat(s) == IF Len(s) = 0 THEN 0
            ELSE ToNat(SubSeq(s, 1, Len(s) - 1)) * 10 + DigitVal(CharAt(s, Len(s)))

DigitStr(d) == CharAt("0123456789", d + 1)
D2(n) == DigitStr((n \div 10) % 10) \o DigitStr(n % 10)
D4(n) == D2(n \div 100) \o D2(n % 100)

\* days of a civil date since 1970-01-01, and back
DaysFromCivil(y, m, d) ==
    LET yy == IF m <= 2 THEN y - 1 ELSE y
        era == yy \div 400
        yoe == yy - era * 400
        mp == (m + 9) % 12
        doy == (153 * mp + 2) \div 5 + d - 1
        doe == yoe * 365 + yoe \div 4 - yoe \div 100 + doy
    IN era * 146097 + doe - 719468

CivilFromDays(days) ==
    LET z == days + 719468
        era == z \div 146097
        doe == z - era * 146097
        yoe == (doe - doe \div 1460 + doe \div 36524 - doe \div 146096) \div 365
        doy == doe - (365 * yoe + yoe \div 4 - yoe \div 100)
        mp == (5 * doy + 2) \div 153
        m == IF mp < 10 THEN mp + 3 ELSE mp - 9
    IN [y |-> yoe + era * 400 + (IF m <= 2 THEN 1 ELSE 0), m |-> m,
        d |-> doy - (153 * mp + 2) \div 5 + 1]

\* the time-zone suffix SQLite accepts: nothing, Z, or a sign and HH:MM; the
\* value is the offset in minutes, or "bad"
ParseZone(z) ==
    IF Len(z) = 0 \/ z \in {"Z", "z"} THEN [ok |-> TRUE, min |-> 0]
    ELSE IF /\ Len(z) = 6 /\ CharAt(z, 1) \in {"+", "-"} /\ IsDigits(SubSeq(z, 2, 3))
            /\ CharAt(z, 4) = ":" /\ IsDigits(SubSeq(z, 5, 6))
            /\ ToNat(SubSeq(z, 2, 3)) <= 14 /\ ToNat(SubSeq(z, 5, 6)) <= 59
    THEN [ok |-> TRUE,
          min |-> (IF CharAt(z, 1) = "-" THEN -1 ELSE 1)
                      * (ToNat(SubSeq(z, 2, 3)) * 60 + ToNat(SubSeq(z, 5, 6)))]
    ELSE [ok |-> FALSE, min |-> 0]

\* the fraction of the seconds, skipped: a dot and the digits after it
RECURSIVE SkipDigits(_)
SkipDigits(s) == IF Len(s) > 0 /\ CharAt(s, 1) \in Digits
                 THEN SkipDigits(SubSeq(s, 2, Len(s))) ELSE s

SkipFraction(s) ==
    IF Len(s) >= 2 /\ CharAt(s, 1) = "." /\ CharAt(s, 2) \in Digits
    THEN SkipDigits(SubSeq(s, 2, Len(s))) ELSE s

NoTime == [ok |-> FALSE, min |-> 0, sec |-> 0]

\* a time value of the form YYYY-MM-DD[T ]HH:MM:SS[.fff][zone], as minutes and
\* seconds of UTC since 1970
ParseTime(s) ==
    IF ~ (/\ Len(s) >= 19
          /\ IsDigits(SubSeq(s, 1, 4)) /\ CharAt(s, 5) = "-"
          /\ IsDigits(SubSeq(s, 6, 7)) /\ CharAt(s, 8) = "-"
          /\ IsDigits(SubSeq(s, 9, 10)) /\ CharAt(s, 11) \in {"T", " "}
          /\ IsDigits(SubSeq(s, 12, 13)) /\ CharAt(s, 14) = ":"
          /\ IsDigits(SubSeq(s, 15, 16)) /\ CharAt(s, 17) = ":"
          /\ IsDigits(SubSeq(s, 18, 19)))
    THEN NoTime
    ELSE LET mo == ToNat(SubSeq(s, 6, 7))
             d == ToNat(SubSeq(s, 9, 10))
             h == ToNat(SubSeq(s, 12, 13))
             mi == ToNat(SubSeq(s, 15, 16))
             se == ToNat(SubSeq(s, 18, 19))
             zone == ParseZone(SkipFraction(SubSeq(s, 20, Len(s))))
         IN IF /\ mo \in 1..12 /\ d \in 1..31 /\ h <= 24 /\ mi <= 59 /\ se <= 59
               /\ zone.ok
            THEN [ok |-> TRUE,
                  min |-> DaysFromCivil(ToNat(SubSeq(s, 1, 4)), mo, d) * 1440
                              + h * 60 + mi - zone.min,
                  sec |-> se]
            ELSE NoTime

\* the text datetime() returns for a time value
FormatTime(t) ==
    LET date == CivilFromDays(t.min \div 1440)
        m == t.min % 1440
    IN D4(date.y) \o "-" \o D2(date.m) \o "-" \o D2(date.d) \o " "
           \o D2(m \div 60) \o ":" \o D2(m % 60) \o ":" \o D2(t.sec)

\* datetime(X): NULL when X is no time value
datetime(s) ==
    LET t == ParseTime(s) IN IF t.ok THEN FormatTime(t) ELSE "null"

\* line 121
TS_UTC(timestamp) == datetime(TS_NORM(timestamp))

\* datetime('now', '-N days')
NowMinusDays(n) ==
    LET t == ParseTime(Now) IN FormatTime([t EXCEPT !.min = @ - n * 1440])

\* the order of two TEXT values: -1, 0, 1 (memcmp, then the shorter first)
RECURSIVE TextCompare(_, _)
TextCompare(a, b) ==
    IF Len(a) = 0 \/ Len(b) = 0
    THEN (IF Len(a) = Len(b) THEN 0 ELSE IF Len(a) = 0 THEN -1 ELSE 1)
    ELSE IF CharAt(a, 1) = CharAt(b, 1)
    THEN TextCompare(SubSeq(a, 2, Len(a)), SubSeq(b, 2, Len(b)))
    ELSE IF Code(CharAt(a, 1)) < Code(CharAt(b, 1)) THEN -1 ELSE 1

\* X >= Y and X <= Y in a WHERE clause: not true when either is NULL
TextGE(a, b) == a # "null" /\ b # "null" /\ TextCompare(a, b) >= 0
TextLE(a, b) == a # "null" /\ b # "null" /\ TextCompare(a, b) <= 0

(***************************************************************************)
(* The query string of GET /locations.  A parameter is the string           *)
(* searchParams.get() returns, "null" when it is absent.  A JavaScript      *)
(* number is [nan, v]; days and limit are whole numbers, a radius and a     *)
(* coordinate are held in thousandths (a radius in metres), so the strings  *)
(* of the model carry at most three decimals.                               *)
(***************************************************************************)
NaN == [nan |-> TRUE, v |-> 0]
Number(v) == [nan |-> FALSE, v |-> v]

\* Math.max and Math.min: NaN when either argument is NaN
MathMax(x, y) == IF x.nan \/ y.nan THEN NaN ELSE IF x.v >= y.v THEN x ELSE y
MathMin(x, y) == IF x.nan \/ y.nan THEN NaN ELSE IF x.v <= y.v THEN x ELSE y

RECURSIVE TrimStart(_)
TrimStart(s) == IF Len(s) > 0 /\ CharAt(s, 1) = " " THEN TrimStart(SubSeq(s, 2, Len(s))) ELSE s

\* the digits a string starts with
LeadingDigits(s) == SubSeq(s, 1, Len(s) - Len(SkipDigits(s)))

Signed(s) == Len(s) > 0 /\ CharAt(s, 1) \in {"+", "-"}
Unsigned(s) == IF Signed(s) THEN SubSeq(s, 2, Len(s)) ELSE s
SignOf(s) == IF Len(s) > 0 /\ CharAt(s, 1) = "-" THEN -1 ELSE 1

\* parseInt(s): an optional sign and the digits that follow, NaN without a digit
parseInt(s) ==
    LET t == TrimStart(s)
        digits == LeadingDigits(Unsigned(t))
    IN IF Len(digits) = 0 THEN NaN ELSE Number(SignOf(t) * ToNat(digits))

\* parseFloat(s), in thousandths: an optional sign, digits, an optional dot and
\* digits; NaN without a digit
parseFloat(s) ==
    LET t == TrimStart(s)
        u == Unsigned(t)
        whole == LeadingDigits(u)
        rest == SubSeq(u, Len(whole) + 1, Len(u))
        frac == IF Len(rest) > 0 /\ CharAt(rest, 1) = "."
                THEN LeadingDigits(SubSeq(rest, 2, Len(rest))) ELSE ""
    IN IF Len(whole) = 0 /\ Len(frac) = 0 THEN NaN
       ELSE Number(SignOf(t) * (ToNat(whole) * 1000 + ToNat(substr(frac \o "000", 1, 3))))

\* a ?? b on a parameter
OrDefault(s, d) == IF s = "null" THEN d ELSE s

\* h3-js gridDisk(center, k): the cells within k steps of the center, the two
\* coordinates of a cell read as axial coordinates of a hexagonal grid.  The
\* ring count crosses into the library as an integer, NaN as 0.
gridDisk(center, k) ==
    LET n == IF k.nan THEN 0 ELSE k.v
        steps == {o \in (-n..n) \X (-n..n) : o[1] + o[2] \in -n..n}
    IN {[res |-> center.res, a |-> center.a + o[1], b |-> center.b + o[2]] : o \in steps}

\* x / y is a division of IEEE-754 doubles.  Of the radii of 0.1 to 50 km in
\* thousandths that are a whole multiple of an edge (1.406, 0.201), these have a
\* double quotient just above the whole number (7.03 / 1.406 is
\* 5.000000000000001); every other multiple divides to the whole number itself.
QuotientAbove ==
    {<<x, 1406>> : x \in {7030, 9842, 14060, 19684, 28120, 32338, 37962, 39368, 40774, 46398}}

\* the mathematical ceiling of x / y, y > 0
CeilDiv(x, y) == IF x >= 0 THEN (x + y - 1) \div y ELSE -((-x) \div y)

\* Math.ceil(x / y) of two numbers in thousandths, y > 0
Ceil(x, y) == IF x.nan THEN NaN
              ELSE Number(CeilDiv(x.v, y) + IF <<x.v, y>> \in QuotientAbove THEN 1 ELSE 0)

\* a plausible slip: the boundary radius goes to the fine resolution
buildNearbyParams_strict(lat, lon, radiusKm) ==
    IF ~radiusKm.nan /\ radiusKm.v > 2000
    THEN LET k == MathMin(Ceil(radiusKm, 1406), Number(10))
             center == latLngToCell(lat.v \div 1000, lon.v \div 1000, 7)
         IN [column |-> "h3_res7", k |-> k, cells |-> gridDisk(center, k)]
    ELSE LET k == MathMin(Ceil(radiusKm, 201), Number(10))
             center == latLngToCell(lat.v \div 1000, lon.v \div 1000, 9)
         IN [column |-> "h3_res9", k |-> k, cells |-> gridDisk(center, k)]

\* lines 99-113; k is the function's local
buildNearbyParams(lat, lon, radiusKm) ==
    IF ~radiusKm.nan /\ radiusKm.v >= 2000
    THEN LET k == MathMin(Ceil(radiusKm, 1406), Number(10))
             center == latLngToCell(lat.v \div 1000, lon.v \div 1000, 7)
         IN [column |-> "h3_res7", k |-> k, cells |-> gridDisk(center, k)]
    ELSE LET k == MathMin(Ceil(radiusKm, 201), Number(10))
             center == latLngToCell(lat.v \div 1000, lon.v \div 1000, 9)
         IN [column |-> "h3_res9", k |-> k, cells |-> gridDisk(center, k)]

(***************************************************************************)
(* The reads.  Each is one store call and the synchronous code around it.  *)
(* `get` is the last read: the query, the handler's locals (days, limit,   *)
(* radiusKm, the spatial filter) and the response.  A returned location is *)
(* [id, row].                                                              *)
(***************************************************************************)
NoQuery == [days |-> "null", limit |-> "null", source |-> "null", after |-> "null",
            before |-> "null", near_lat |-> "null", near_lon |-> "null", radius |-> "null"]

NoFilter == [column |-> "", k |-> Number(0), cells |-> {}]

NoMeta == [present |-> FALSE, lat |-> NaN, lon |-> NaN, radius_km |-> NaN,
           resolution_used |-> 0, cells_searched |-> 0]

GetIdle == [n |-> 0, op |-> "none", q |-> NoQuery, code |-> 0, error |-> "",
            days |-> NaN, limit |-> NaN, radiusKm |-> NaN, filter |-> NoFilter,
            count |-> 0, locations |-> <<>>, meta |-> NoMeta]

\* lines 144-145, 164: the clamps
ClampDays(param) == MathMin(MathMax(parseInt(OrDefault(param, "7")), Number(1)), Number(365))
ClampLimit(param) ==
    MathMin(MathMax(parseInt(OrDefault(param, "1000")), Number(1)), Number(10000))

ClampRadius(param) ==
    MathMin(MathMax(parseFloat(OrDefault(param, "1")), Number(100)), Number(50000))

\* lines 158-172: the spatial filter and its meta; ok is FALSE on the early return
SpatialOf(q) ==
    IF q.near_lat # "null" /\ q.near_lon # "null"
    THEN LET lat == parseFloat(q.near_lat)
             lon == parseFloat(q.near_lon)
             radiusKm == ClampRadius(q.radius)
             spatialFilter == buildNearbyParams(lat, lon, radiusKm)
         IN IF lat.nan \/ lon.nan
            THEN [ok |-> FALSE, on |-> FALSE, radiusKm |-> NaN, filter |-> NoFilter,
                  meta |-> NoMeta]
            ELSE [ok |-> TRUE, on |-> TRUE, radiusKm |-> radiusKm, filter |-> spatialFilter,
                  meta |-> [present |-> TRUE, lat |-> lat, lon |-> lon,
                            radius_km |-> radiusKm,
                            resolution_used |->
                                IF spatialFilter.column = "h3_res7" THEN 7 ELSE 9,
                            cells_searched |-> Cardinality(spatialFilter.cells)]]
    ELSE [ok |-> TRUE, on |-> FALSE, radiusKm |-> NaN, filter |-> NoFilter, meta |-> NoMeta]

\* datetime('now', '-N days'): NULL when N is NaN
Since(days) == IF days.nan THEN "null" ELSE NowMinusDays(days.v)

\* lines 174-201: the WHERE clause, for one row
Where(q, sp, days, r) ==
    /\ IF Truthy(q.after) THEN TextGE(TS_UTC(r.timestamp), q.after)
       ELSE IF ~sp.on THEN TextGE(TS_UTC(r.timestamp), Since(days))
       ELSE TRUE
    /\ Truthy(q.before) => TextLE(TS_UTC(r.timestamp), q.before)
    /\ Truthy(q.source) => r.source = q.source
    /\ sp.on => /\ r[sp.filter.column] # NoCell
                /\ r[sp.filter.column] \in sp.filter.cells

\* ORDER BY TS_UTC DESC: NULL is the smallest value
KeyGE(x, y) == y = "null" \/ (x # "null" /\ TextCompare(x, y) >= 0)

\* the orders in which ORDER BY TS_UTC DESC may return the rows `ids` of s: rows
\* of one key in any order
DescOrders(s, ids) ==
    {o \in [1..Cardinality(ids) -> ids] :
        /\ \A i, j \in DOMAIN o : i # j => o[i] # o[j]
        /\ \A i, j \in DOMAIN o :
               i < j => KeyGE(TS_UTC(s[o[i]].timestamp), TS_UTC(s[o[j]].timestamp))}

Returned(s, o, n) == [i \in 1..Min(n, Len(o)) |-> [id |-> o[i], row |-> s[o[i]]]]

\* lines 140-218.  A limit that is NaN reaches the store as the bound value of
\* LIMIT, which the store refuses; nothing catches it.
GetLocations(q, more) ==
    /\ more
    /\ LET sp == SpatialOf(q)
           days == ClampDays(q.days)
           limit == ClampLimit(q.limit)
           g == [GetIdle EXCEPT !.n = get.n + 1, !.op = "locations", !.q = q,
                                !.days = days, !.limit = limit,
                                !.radiusKm = sp.radiusKm, !.filter = sp.filter]
       IN \/ /\ ~sp.ok
             /\ get' = [g EXCEPT !.code = 400,
                                 !.error = "near_lat and near_lon must be valid numbers"]
             /\ UNCHANGED faulted
          \/ /\ sp.ok /\ limit.nan
             /\ get' = [g EXCEPT !.code = 500]
             /\ UNCHANGED faulted
          \/ /\ sp.ok /\ ~limit.nan
             /\ \E o \in DescOrders(store, {id \in 1..Len(store) :
                                               Where(q, sp, days, store[id])}) :
                    LET results == Returned(store, o, limit.v)
                    IN get' = [g EXCEPT !.code = 200, !.count = Len(results),
                                        !.locations = results, !.meta = sp.meta]
             /\ UNCHANGED faulted
          \/ /\ sp.ok
             /\ get' = [g EXCEPT !.code = 500]
             /\ faulted' = TRUE
    /\ UNCHANGED <<store, post, batch, bf, norm, calls>>

\* a plausible slip: the first row of the table is taken, not the latest
LatestOf_first(s) == {id \in 1..Len(s) : id = 1}

\* ORDER BY TS_UTC DESC LIMIT 1: the rows the statement may return
LatestOf(s) ==
    {id \in 1..Len(s) :
        \A j \in 1..Len(s) : KeyGE(TS_UTC(s[id].timestamp), TS_UTC(s[j].timestamp))}

\* lines 220-230
GetLatest(more) ==
    /\ more
    /\ LET g == [GetIdle EXCEPT !.n = get.n + 1, !.op = "latest"]
       IN \/ /\ Len(store) = 0
             /\ get' = [g EXCEPT !.code = 404, !.error = "No location data found"]
             /\ UNCHANGED faulted
          \/ /\ \E id \in LatestOf(store) :
                    get' = [g EXCEPT !.code = 200,
                                     !.locations = <<[id |-> id, row |-> store[id]]>>]
             /\ UNCHANGED faulted
          \/ /\ get' = [g EXCEPT !.code = 500]
             /\ faulted' = TRUE
    /\ UNCHANGED <<store, post, batch, bf, norm, calls>>

\* lines 125-138: count is the `records` of the response; a failing store is
\* answered as "not initialized"
Health(more) ==
    /\ more
    /\ LET g == [GetIdle EXCEPT !.n = get.n + 1, !.op = "health", !.code = 200]
       IN \/ /\ get' = [g EXCEPT !.count = Len(store)]
             /\ UNCHANGED faulted
          \/ /\ get' = [g EXCEPT !.error = "not initialized"]
             /\ faulted' = TRUE
    /\ UNCHANGED <<store, post, batch, bf, norm, calls>>

(***************************************************************************)
(* The normalizer on its own: `norm` is a string and what TS_NORM has made *)
(* of it after n applications.                                             *)
(***************************************************************************)
NormIdle == [in |-> "", out |-> "", n |-> 0]

Normalize(more) ==
    /\ more
    /\ norm' = [norm EXCEPT !.out = TS_NORM(norm.out), !.n = @ + 1]
    /\ UNCHANGED <<store, post, batch, bf, faulted, get, calls>>

(***************************************************************************)
(* Rows written before migration 0002 added the index columns (by the      *)
(* handlers of the earlier worker, which bound the same lat and lon        *)
(* values): both columns NULL.                                             *)
(***************************************************************************)
LegacyRow(lat, lon) ==
    Row("2023-06-01T08:00:00+0900", lat, lon, "path", computeH3(Null, Null), "legacy", 0)

LegacyRows == {LegacyRow(Num(35), Num(139)), LegacyRow(NonNumeric, Num(139))}

RECURSIVE SeqsUpTo(_, _)
SeqsUpTo(S, n) ==
    IF n = 0 THEN {<<>>}
    ELSE LET shorter == SeqsUpTo(S, n - 1)
         IN shorter \cup {Append(q, x) : q \in {r \in shorter : Len(r) = n - 1}, x \in S}

InitRequests ==
    /\ post = PostDone(0, NoBody, 0, "none", 0, FALSE)
    /\ batch = BatchIdle
    /\ bf = [p \in Procs |-> BackfillIdle]
    /\ faulted = FALSE
    /\ get = GetIdle
    /\ calls = <<>>

(***************************************************************************)
(* Spec: every handler, interleaved at the awaits, over a table that       *)
(* starts with up to MaxLegacy rows of before the migration.               *)
(***************************************************************************)
SomePostBodies ==
    {b \in PostBodies : /\ b.source = "undefined" /\ b.tst = 0 /\ b.lon = Num(139)
                        /\ \/ b.type = "location" /\ b.lat \in {Undefined, Num(35)}
                           \/ b.type = "status" /\ b.lat = Num(35)
                           \/ b.type = "undefined" /\ b.lat = NonNumeric}

Init ==
    /\ store \in SeqsUpTo(LegacyRows, MaxLegacy)
    /\ InitRequests
    /\ norm = NormIdle

Next ==
    \/ \E body \in SomePostBodies : PostLocation(body, Requests < MaxRequests)
    \/ \E body \in SmallBatchBodies : BatchStart(body, Requests < MaxRequests)
    \/ BatchPage
    \/ \E p \in Procs : BackfillSelect(p, Requests < MaxRequests)
    \/ \E p \in Procs : BackfillNothing(p)
    \/ \E p \in Procs : BackfillPage(p)
    \/ \E p \in Procs : BackfillCount(p)

Spec == Init /\ [][Next]_vars

(***************************************************************************)
(* SpecStable: as Spec, with the backfills in an order: process 1 invokes  *)
(* the backfill first, process 2 only once an invocation of process 1 has  *)
(* returned status complete, and process 1 not again after that.  POST     *)
(* /locations and the batch import run at any time.                        *)
(***************************************************************************)
Completed == bf[1].pc = "done" /\ bf[1].resp.status = "complete"

NextStable ==
    \/ \E body \in SomePostBodies : PostLocation(body, Requests < MaxRequests)
    \/ \E body \in SmallBatchBodies : BatchStart(body, Requests < MaxRequests)
    \/ BatchPage
    \/ BackfillSelect(1, Requests < MaxRequests /\ bf[2].n = 0)
    \/ BackfillSelect(2, Requests < MaxRequests /\ Completed)
    \/ \E p \in Procs : BackfillNothing(p)
    \/ \E p \in Procs : BackfillPage(p)
    \/ \E p \in Procs : BackfillCount(p)

SpecStable == Init /\ [][NextStable]_vars

(***************************************************************************)
(* SpecIngest: POST /locations alone, over every body.                     *)
(***************************************************************************)
NextIngest == \E body \in PostBodies : PostLocation(body, post.n < MaxPosts)

SpecIngest == Init /\ [][NextIngest]_vars

(***************************************************************************)
(* SpecBatch: batch imports of up to 250 locations, alone.                 *)
(***************************************************************************)
NextBatch ==
    \/ \E body \in PagedBatchBodies : BatchStart(body, batch.n < MaxBatches)
    \/ BatchPage

SpecBatch == Init /\ [][NextBatch]_vars

(***************************************************************************)
(* SpecSweep: one client invoking the backfill again and again over a      *)
(* table of N rows of before the migration, with nothing else running.     *)
(***************************************************************************)
TableSizes == {1, 2, 999, 1000, 1001, 2001}

\* a row of before the migration, or a row as the batch import writes it for a
\* location whose lat is no number
SweptRows == {LegacyRow(Num(35), Num(139)), BatchRow(TextLoc, 0)}

InitSweep ==
    /\ \E n \in TableSizes, r \in SweptRows : store = [id \in 1..n |-> r]
    /\ InitRequests
    /\ norm = NormIdle

NextSweep ==
    \/ BackfillSelect(1, bf[1].n < MaxSweeps)
    \/ BackfillNothing(1)
    \/ BackfillPage(1)
    \/ BackfillCount(1)

SpecSweep == InitSweep /\ [][NextSweep]_vars

(***************************************************************************)
(* The paged handlers with every env.DB.batch cut in two: the call is      *)
(* issued (the statements of the page are built and handed to the store),  *)
(* and later it resolves or rejects and the handler goes on.  A call is    *)
(* [who, req, offset, size, state]: who is 0 for the batch import and the  *)
(* process for a backfill, req the request's number, offset and size the   *)
(* slice of the request's list the call carries, state "flight" until the  *)
(* call has resolved ("ok") or rejected ("failed").                        *)
(***************************************************************************)
Call(who, req, offset, size) ==
    [who |-> who, req |-> req, offset |-> offset, size |-> size, state |-> "flight"]

\* the log once the call in flight of `who` has come back
Resolved(log, who, outcome) ==
    [c \in DOMAIN log |->
        IF log[c].who = who /\ log[c].state = "flight"
        THEN [log[c] EXCEPT !.state = outcome] ELSE log[c]]

\* lines 356-380: the page's statements are built and env.DB.batch is called
BatchIssue ==
    /\ batch.pc = "loop"
    /\ LET chunk == Slice(batch.locations, batch.i, batch.i + batchSize)
       IN calls' = Append(calls, Call(0, batch.n, batch.i, Len(chunk)))
    /\ batch' = [batch EXCEPT !.pc = "await"]
    /\ UNCHANGED <<store, post, bf, faulted, get, norm>>

\* lines 380-386: the await returns or throws, the counters, the loop step
BatchResolve ==
    /\ batch.pc = "await"
    /\ LET b == [batch EXCEPT !.pc = "loop"]
           chunk == Slice(batch.locations, batch.i, batch.i + batchSize)
           stmts == [j \in 1..Len(chunk) |-> BatchRow(chunk[j], batch.req)]
           valid == {j \in 1..Len(stmts) : ~NotNullOK(stmts[j])} = {}
       IN \/ /\ valid
             /\ store' = store \o stmts
             /\ batch' = BatchAdvance(b, chunk, TRUE)
             /\ calls' = Resolved(calls, 0, "ok")
             /\ UNCHANGED faulted
          \/ /\ ~valid
             /\ batch' = BatchAdvance(b, chunk, FALSE)
             /\ calls' = Resolved(calls, 0, "failed")
             /\ UNCHANGED <<store, faulted>>
          \/ /\ faulted' = TRUE
             /\ batch' = BatchAdvance(b, chunk, FALSE)
             /\ calls' = Resolved(calls, 0, "failed")
             /\ UNCHANGED store
    /\ UNCHANGED <<post, bf, get, norm>>

\* lines 420-429: the page's statements are built and env.DB.batch is called
BackfillIssue(p) ==
    /\ bf[p].pc = "loop"
    /\ LET chunk == Slice(bf[p].rows, bf[p].i, bf[p].i + batchSize)
       IN calls' = Append(calls, Call(p, bf[p].n, bf[p].i, Len(chunk)))
    /\ bf' = [bf EXCEPT ![p].pc = "await"]
    /\ UNCHANGED <<store, post, batch, faulted, get, norm>>

\* lines 429-431: the await returns and the loop goes on, or it throws and the
\* exception leaves the handler
BackfillResolve(p) ==
    /\ bf[p].pc = "await"
    /\ LET chunk == Slice(bf[p].rows, bf[p].i, bf[p].i + batchSize)
           i2 == bf[p].i + batchSize
       IN \/ /\ store' = ApplyUpdates(store, chunk)
             /\ bf' = [bf EXCEPT ![p].i = i2,
                                 ![p].updated = @ + Len(chunk),
                                 ![p].writes = @ + 1,
                                 ![p].pc = IF i2 < Len(bf[p].rows) THEN "loop" ELSE "count"]
             /\ calls' = Resolved(calls, p, "ok")
             /\ UNCHANGED faulted
          \/ /\ bf' = [bf EXCEPT ![p].pc = "failed", ![p].writes = @ + 1]
             /\ calls' = Resolved(calls, p, "failed")
             /\ faulted' = TRUE
             /\ UNCHANGED store
    /\ UNCHANGED <<post, batch, get, norm>>

(***************************************************************************)
(* SpecPages: a batch import and a backfill, each up to MaxPagedRuns       *)
(* times, interleaved at the issue and the resolution of every page, over  *)
(* lists and tables of one page, of just more than one and of three.       *)
(***************************************************************************)
PagesBodies ==
    {ListBody(Fill(n, GoodLoc)) : n \in {1, 100, 101, 250}}
    \cup {ListBody(WithAt(Fill(250, GoodLoc), 101, NoLatLoc))}

PagesTables == {0, 1, 101, 250}

InitPages ==
    /\ \E n \in PagesTables : store = [id \in 1..n |-> LegacyRow(Num(35), Num(139))]
    /\ InitRequests
    /\ norm = NormIdle

NextPages ==
    \/ \E body \in PagesBodies : BatchStart(body, batch.n < MaxPagedRuns)
    \/ BatchIssue
    \/ BatchResolve
    \/ BackfillSelect(1, bf[1].n < MaxPagedRuns)
    \/ BackfillNothing(1)
    \/ BackfillIssue(1)
    \/ BackfillResolve(1)
    \/ BackfillCount(1)

SpecPages == InitPages /\ [][NextPages]_vars

(***************************************************************************)
(* SpecFrame: every handler, writes and reads, interleaved at the awaits,  *)
(* MaxCalls requests in all.                                               *)
(***************************************************************************)
Calls == Requests + get.n

FrameQueries == {NoQuery, [NoQuery EXCEPT !.near_lat = "35", !.near_lon = "139"]}

NextFrame ==
    \/ \E body \in SomePostBodies : PostLocation(body, Calls < MaxCalls)
    \/ \E body \in SmallBatchBodies : BatchStart(body, Calls < MaxCalls)
    \/ BatchPage
    \/ \E p \in Procs : BackfillSelect(p, Calls < MaxCalls)
    \/ \E p \in Procs : BackfillNothing(p)
    \/ \E p \in Procs : BackfillPage(p)
    \/ \E p \in Procs : BackfillCount(p)
    \/ \E q \in FrameQueries : GetLocations(q, Calls < MaxCalls)
    \/ GetLatest(Calls < MaxCalls)
    \/ Health(Calls < MaxCalls)

SpecFrame == Init /\ [][NextFrame]_vars

(***************************************************************************)
(* SpecRead: one read, over tables of up to MaxRows rows as the handlers   *)
(* write them, in the three encodings of a timestamp, and over query       *)
(* strings that vary the parameters a few at a time.                       *)
(***************************************************************************)
ReadRows ==
    {BatchRow(GoodLoc, 0),
     BatchRow([GoodLoc EXCEPT !.timestamp = "2024-01-01T12:00:00+09:00", !.lat = Num(35),
                              !.lon = Num(139), !.source = "visit"], 0),
     BatchRow([GoodLoc EXCEPT !.timestamp = "abc"], 0),
     handlePostLocation([NoBody EXCEPT !.type = "undefined", !.lat = Num(36),
                                       !.lon = Num(140),
                                       !.timestamp = "2024-01-01T05:00:00Z"], 0).row,
     LegacyRow(Num(35), Num(139))}

Query(days, limit, source, after, before, near_lat, near_lon, radius) ==
    [days |-> days, limit |-> limit, source |-> source, after |-> after,
     before |-> before, near_lat |-> near_lat, near_lon |-> near_lon, radius |-> radius]

DaysParams == {"null", "7", "1", "0", "365", "400", "-3", "abc", ""}
LimitParams == {"null", "1", "2", "0", "20000", "abc"}
RadiusParams == {"null", "0.05", "0.1", "1.999", "2", "50", "80", "abc"}
TimeParams == {"null", "2024-01-01T00:00:00Z", "2024-01-01T23:00:00-05:00",
               "2024-01-01T12:00:00+0900", "2024-01-01 04:00:00"}
SourceParams == {"null", "path", ""}

Queries ==
    {Query(d, l, "null", "null", "null", "null", "null", "null") :
        d \in DaysParams, l \in LimitParams}
    \cup {Query("null", "null", s, "null", "null", "null", "null", "null") :
            s \in SourceParams}
    \cup {Query("null", "null", "null", a, b, "null", "null", "null") :
            a \in TimeParams, b \in TimeParams}
    \cup {Query("null", "null", "null", a, "null", "36", "140", r) :
            a \in {"null", "2024-01-01 04:00:00"}, r \in RadiusParams}
    \cup {Query("null", "null", "null", "null", "null", la, lo, "null") :
            la \in {"null", "36", "abc"}, lo \in {"null", "140"}}

InitRead ==
    /\ store \in SeqsUpTo(ReadRows, MaxRows)
    /\ InitRequests
    /\ norm = NormIdle

NextRead ==
    \/ \E q \in Queries : GetLocations(q, get.op = "none")
    \/ GetLatest(get.op = "none")
    \/ Health(get.op = "none")

SpecRead == InitRead /\ [][NextRead]_vars

(***************************************************************************)
(* SpecNorm: TS_NORM applied, up to MaxNormalize times, to every string of *)
(* up to MaxTail characters of a sign, a digit and a colon, alone and      *)
(* after a date and time.                                                  *)
(***************************************************************************)
RECURSIVE Strings(_, _)
Strings(S, n) ==
    IF n = 0 THEN {""}
    ELSE LET shorter == Strings(S, n - 1)
         IN shorter \cup {s \o c : s \in {t \in shorter : Len(t) = n - 1}, c \in S}

NormInputs ==
    {prefix \o tail : prefix \in {"", "2024-01-01T12:00:00"},
                      tail \in Strings({"+", "-", "0", ":"}, MaxTail)}
    \cup {Now, ToISOString(1700000000), "2024-01-01T12:00:00Z"}

InitNorm ==
    /\ store = <<>>
    /\ InitRequests
    /\ \E s \in NormInputs : norm = [in |-> s, out |-> s, n |-> 0]

NextNorm == Normalize(norm.n < MaxNormalize)

SpecNorm == InitNorm /\ [][NextNorm]_vars

(***************************************************************************)
(* SpecRings: one radius query over a table of one row, the radius drawn   *)
(* from the thousandths of 0 to MaxRadius km that are a whole multiple of  *)
(* an edge or one thousandth above one, and the ends of the clamp and of   *)
(* the resolution policy.                                                   *)
(***************************************************************************)
D3(n) == DigitStr((n \div 100) % 10) \o D2(n % 100)

\* a radius of m thousandths as the text of the parameter
RadiusText(m) == DigitStr((m \div 10000) % 10) \o DigitStr((m \div 1000) % 10) \o "." \o D3(m % 1000)

RingRadii ==
    {m \in 0..(MaxRadius * 1000) : m % 201 \in {0, 1} \/ m % 1406 \in {0, 1}}
    \cup {50, 100, 1999, 2000, 50000}

RingQueries ==
    {Query("null", "null", "null", "null", "null", "36", "140", RadiusText(m)) : m \in RingRadii}
    \cup {Query("null", "null", "null", "null", "null", "36", "140", r) : r \in {"null", "abc"}}
    \cup {Query("null", "null", "null", "null", "null", "x", "140", "1"),
          Query("null", "abc", "null", "null", "null", "36", "140", "1")}

InitRings ==
    /\ store \in SeqsUpTo(ReadRows, 1)
    /\ InitRequests
    /\ norm = NormIdle

NextRings == \E q \in RingQueries : GetLocations(q, get.op = "none")

SpecRings == InitRings /\ [][NextRings]_vars

(***************************************************************************)
(* SpecBound: one GET /locations over tables of up to MaxRows rows, one of *)
(* them weeks old, the query with or without `after`, `days` and a place.  *)
(***************************************************************************)
PostedAt(ts, lat, lon) ==
    handlePostLocation([NoBody EXCEPT !.type = "undefined", !.lat = Num(lat), !.lon = Num(lon),
                                      !.timestamp = ts], 0).row

BoundRows ==
    {PostedAt("2023-12-20T00:00:00Z", 36, 140),
     PostedAt("2024-01-01T05:00:00Z", 36, 140),
     PostedAt("2024-01-01T12:00:00+09:00", 35, 139)}

BoundDays == {"null", "1", "30", "abc"}
BoundAfter == {"null", "", "2024-01-01T00:00:00Z", "2023-12-25T00:00:00Z",
               "2024-01-01T12:00:00+0900"}

BoundQueries ==
    {Query(d, "null", "null", a, "null", "null", "null", "null") :
        d \in BoundDays, a \in BoundAfter}
    \cup {Query(d, "null", "null", a, "null", "36", "140", "null") :
            d \in BoundDays, a \in BoundAfter}
    \cup {Query("null", "1", "null", "null", "null", "36", "140", "null"),
          Query("null", "abc", "null", "null", "null", "null", "null", "null"),
          Query("null", "null", "null", "null", "null", "x", "140", "null")}

InitBound ==
    /\ store \in SeqsUpTo(BoundRows, MaxRows)
    /\ InitRequests
    /\ norm = NormIdle

NextBound == \E q \in BoundQueries : GetLocations(q, get.op = "none")

SpecBound == InitBound /\ [][NextBound]_vars

(***************************************************************************)
(* Batch import: accounting and paging.                                    *)
(***************************************************************************)
RECURSIVE SumSizes(_, _)
\* the records of the logged pages whose batch call resolved (ok) or rejected (~ok)
SumSizes(pages, ok) ==
    IF pages = <<>> THEN 0
    ELSE (IF Head(pages).ok = ok THEN Head(pages).size ELSE 0) + SumSizes(Tail(pages), ok)

BatchAnswered == batch.pc = "done" /\ batch.shape = "list"

\* C1: a batch import over n locations answers imported + errors = total = n,
\* whatever pages the store accepted or rejected, after cutting the list into
\* the consecutive pages of 100 records, only the last one possibly shorter
\* (none for an empty list).
C1_BatchAccounting ==
    BatchAnswered =>
        LET n == Len(batch.locations) IN
        /\ batch.resp.code = 200
        /\ batch.resp.total = n
        /\ batch.resp.imported + batch.resp.errors = n
        /\ Len(batch.pages) = CeilDiv(n, 100)
        /\ \A k \in 1..Len(batch.pages) :
              /\ batch.pages[k].offset = (k - 1) * 100
              /\ batch.pages[k].size = (IF k * 100 <= n THEN 100 ELSE n - (k - 1) * 100)
              /\ batch.pages[k].size >= 1

\* 250 records: pages of 100, 100 and 50, the second one rejected
C1_Witness ==
    /\ BatchAnswered
    /\ Len(batch.locations) = 250
    /\ [k \in 1..Len(batch.pages) |-> batch.pages[k].size] = <<100, 100, 50>>
    /\ [k \in 1..Len(batch.pages) |-> batch.pages[k].ok] = <<TRUE, FALSE, TRUE>>
    /\ batch.resp = BatchResp(200, 150, 100, 250)

\* the positions of the locations that lie in a page the store accepted
AcceptedPositions ==
    SelectSeq([j \in 1..Len(batch.locations) |-> j],
              LAMBDA j : \E k \in 1..Len(batch.pages) :
                            /\ batch.pages[k].ok
                            /\ batch.pages[k].offset < j
                            /\ j <= batch.pages[k].offset + batch.pages[k].size)

\* the rows the current batch import added to the table
RowsOfBatch == SubSeq(store, batch.size0 + 1, Len(store))

\* C2: a rejected page adds its whole size to errors and none of its records to
\* the table, is not submitted again, and the later pages are still submitted:
\* the rows the request added are exactly the records of the accepted pages,
\* `imported` of them.
C2_PageFailure ==
    batch.shape = "list" =>
        LET accepted == AcceptedPositions
            added == RowsOfBatch
        IN
        /\ batch.errors = SumSizes(batch.pages, FALSE)
        /\ batch.imported = SumSizes(batch.pages, TRUE)
        /\ Len(added) = batch.imported
        /\ Cardinality({id \in 1..Len(store) :
                           store[id].op = "batch" /\ store[id].req = batch.req}) = batch.imported
        /\ Len(accepted) = Len(added)
        /\ \A m \in 1..Len(added) :
              LET loc == batch.locations[accepted[m]] IN
              /\ added[m].lat = loc.lat
              /\ added[m].lon = loc.lon
              /\ added[m].timestamp = loc.timestamp
              /\ added[m].source = loc.source
        /\ \A k, l \in 1..Len(batch.pages) : k < l => batch.pages[k].offset < batch.pages[l].offset
        /\ batch.pc = "done" => Len(batch.pages) = CeilDiv(Len(batch.locations), 100)

\* the second page of three was rejected, the third one was still written
C2_Witness ==
    /\ batch.pc = "done"
    /\ Len(batch.pages) = 3
    /\ ~batch.pages[2].ok /\ batch.pages[3].ok
    /\ batch.resp.errors = 100
    /\ Len(store) = batch.size0 + 150

(***************************************************************************)
(* Backfill.                                                               *)
(***************************************************************************)
\* C3: over a fixed table of N rows with h3_res7 NULL and coordinates present,
\* with no insert and no store failure, the backfill invoked again and again
\* answers remaining = 0 and status complete from its ceil(N / 1000)-th
\* invocation on.
C3_Convergence ==
    (/\ bf[1].pc = "done"
     /\ ~faulted
     /\ bf[1].n >= CeilDiv(Len(store), 1000))
    => /\ bf[1].resp.remaining = 0
       /\ bf[1].resp.status = "complete"

\* the table a batch import of a location with a non-numeric lat leaves behind,
\* and the answer of the backfill over it
C3_StuckSweep ==
    /\ bf[1].pc = "done" /\ ~faulted /\ bf[1].n = MaxSweeps
    /\ \A id \in 1..Len(store) : store[id] = BatchRow(TextLoc, 0)
    /\ bf[1].resp.status = "in_progress"
    /\ bf[1].resp.remaining = Len(store)

\* the response of an invocation that returned, against its selection
C4_StatusOfResponse ==
    \A p \in Procs : bf[p].pc = "done" =>
        /\ bf[p].resp.status \in {"complete", "in_progress"}
        /\ Len(bf[p].rows) = 0 =>
              /\ bf[p].writes = 0
              /\ bf[p].resp.status = "complete"
              /\ bf[p].resp.updated = 0
              /\ bf[p].resp.remaining = 0
        /\ Len(bf[p].rows) > 0 =>
              /\ bf[p].resp.status = "in_progress" <=> bf[p].resp.remaining > 0
              /\ bf[p].resp.status = "complete" <=> bf[p].resp.remaining = 0
              /\ bf[p].resp.updated = Len(bf[p].rows)

\* the re-count is the number of unindexed rows when it is taken
C4_Recount ==
    \A p \in Procs : (bf[p].pc = "count" /\ bf'[p].pc = "done") =>
        bf'[p].resp.remaining = Cardinality({id \in 1..Len(store) :
            /\ store[id].h3_res7 = NoCell
            /\ store[id].lat # Null /\ store[id].lon # Null})

\* C4: a backfill invocation that returns answers complete with updated = 0 and
\* remaining = 0, without a write, when it selected nothing; and otherwise
\* in_progress exactly when the re-count after its last page is above 0, complete
\* if not, with remaining that re-count and updated the number of rows selected.
C4_BackfillResponse == []C4_StatusOfResponse /\ [][C4_Recount]_vars

\* a response in_progress and, of the other process, a response complete
C4_Witness ==
    /\ bf[1].pc = "done" /\ bf[1].resp.status = "in_progress" /\ bf[1].resp.updated > 0
    /\ bf[2].pc = "done" /\ bf[2].resp.status = "complete" /\ bf[2].resp.updated = 0

\* what one invocation, running alone, writes into the index columns of a row
SerialIndex(r) ==
    IF r.lat.k = "number" /\ r.lon.k = "number"
    THEN [h3_res7 |-> latLngToCell(r.lat.n, r.lon.n, 7),
          h3_res9 |-> latLngToCell(r.lat.n, r.lon.n, 9)]
    ELSE [h3_res7 |-> NoCell, h3_res9 |-> NoCell]

IndexedAsSerial(r) ==
    r.h3_res7 = SerialIndex(r).h3_res7 /\ r.h3_res9 = SerialIndex(r).h3_res9

\* the rows of p's selection whose page has been written
Written(p) == {bf[p].rows[j].id : j \in 1..Min(bf[p].updated, Len(bf[p].rows))}

C5_SerialValues ==
    \A p \in Procs : \A id \in Written(p) : IndexedAsSerial(store[id])

\* a page over rows that are indexed already changes nothing
C5_RewriteIsNoOp ==
    \A p \in Procs :
        (/\ bf[p].pc = "loop"
         /\ bf'[p].writes = bf[p].writes + 1
         /\ \A j \in (bf[p].i + 1)..Min(bf[p].i + 100, Len(bf[p].rows)) :
               IndexedAsSerial(store[bf[p].rows[j].id]))
        => store' = store

\* C5: concurrent backfill invocations over the same rows leave in every row
\* the index values one invocation alone writes, and a backfill page over rows
\* already indexed leaves the table as it is.
C5_BackfillIdempotent == []C5_SerialValues /\ [][C5_RewriteIsNoOp]_vars

\* two invocations selected the same numeric row and both wrote it
C5_Witness ==
    /\ bf[1].pc = "done" /\ bf[2].pc = "done"
    /\ bf[1].writes > 0 /\ bf[2].writes > 0
    /\ \E id \in Written(1) \cap Written(2) : store[id].h3_res7 # NoCell

(***************************************************************************)
(* The index columns of the rows.                                          *)
(***************************************************************************)
\* C6: in every state of the table, whatever handlers ran and however they
\* interleaved, each row has h3_res7 and h3_res9 both NULL or both set.
C6_BothOrNeither ==
    \A id \in 1..Len(store) : (store[id].h3_res7 = NoCell) <=> (store[id].h3_res9 = NoCell)

\* a row the backfill indexed beside a row written without an index, after a
\* batch import with a rejected page
C6_Witness ==
    /\ \E id \in 1..Len(store) :
          store[id].op = "legacy" /\ store[id].h3_res7 # NoCell /\ store[id].h3_res9 # NoCell
    /\ \E id \in 1..Len(store) :
          store[id].op \in {"post", "batch"}
          /\ store[id].h3_res7 = NoCell /\ store[id].h3_res9 = NoCell
    /\ batch.pc = "done" /\ batch.errors > 0

WrittenByIngestion(r) == r.op \in {"post", "batch"}

\* C7 as stated: no row written by POST /locations or by the batch import is
\* ever in the table with h3_res7 or h3_res9 NULL.
C7_AlwaysIndexed ==
    \A id \in 1..Len(store) :
        WrittenByIngestion(store[id]) =>
            store[id].h3_res7 # NoCell /\ store[id].h3_res9 # NoCell

\* C7, amended: a row written by POST /locations or by the batch import has
\* both index columns set, from the write that creates it on, when its lat and
\* lon are numbers, and both NULL when one of them is not.
C7_IndexedWhenNumeric ==
    \A id \in 1..Len(store) :
        WrittenByIngestion(store[id]) =>
            IF store[id].lat.k = "number" /\ store[id].lon.k = "number"
            THEN /\ store[id].h3_res7 = latLngToCell(store[id].lat.n, store[id].lon.n, 7)
                 /\ store[id].h3_res9 = latLngToCell(store[id].lat.n, store[id].lon.n, 9)
            ELSE store[id].h3_res7 = NoCell /\ store[id].h3_res9 = NoCell

\* a POSTed row and a batch row with their index, and a batch row without one
C7_Witness ==
    /\ \E id \in 1..Len(store) : store[id].op = "post" /\ store[id].h3_res9 # NoCell
    /\ \E id \in 1..Len(store) : store[id].op = "batch" /\ store[id].h3_res9 # NoCell
    /\ \E id \in 1..Len(store) : store[id].op = "batch" /\ store[id].h3_res9 = NoCell

(***************************************************************************)
(* POST /locations: the dispatch on the type tag.                          *)
(***************************************************************************)
Tracked == {"location", "waypoint", "transition"}

\* the step is one call of POST /locations
Posted == post'.n = post.n + 1

\* C8 as stated: a call persists at most one record, and a message whose type
\* tag is anything but location, waypoint or transition is answered with an
\* empty list and no store operation.
C8_AnyOtherTag ==
    [][Posted =>
        /\ Len(store') <= Len(store) + 1
        /\ (post'.body.type # "undefined" /\ post'.body.type \notin Tracked) =>
              /\ post'.code = 200 /\ post'.out = "[]"
              /\ post'.sent = 0
              /\ store' = store]_vars

\* C8, amended: a call persists at most one record, and a message whose type
\* tag is a non-empty string other than location, waypoint or transition is
\* answered with an empty list and no store operation.
C8_OpaqueMessage ==
    [][Posted =>
        /\ Len(store') <= Len(store) + 1
        /\ SubSeq(store', 1, Len(store)) = store
        /\ (post'.body.type \notin {"undefined", ""} /\ post'.body.type \notin Tracked) =>
              /\ post'.code = 200 /\ post'.out = "[]"
              /\ post'.sent = 0
              /\ store' = store]_vars

\* {_type: "status"} with coordinates: acknowledged, nothing sent to the store
C8_Witness ==
    /\ post.n > 0
    /\ post.body.type = "status" /\ post.body.lat = Num(35) /\ post.body.lon = Num(139)
    /\ post.code = 200 /\ post.out = "[]" /\ post.sent = 0

Missing(v) == v.k = "undefined"

\* C9: a message of type location, waypoint or transition, or without a type
\* tag, whose lat or lon is missing is answered with a client error, and no
\* store write is attempted.
C9_InvalidPayload ==
    (/\ post.n > 0
     /\ post.body.type \in Tracked \cup {"undefined"}
     /\ Missing(post.body.lat) \/ Missing(post.body.lon))
    => post.code = 400 /\ post.sent = 0

\* the source tag of each variant
SourceOf(body) ==
    CASE body.type = "location" -> "owntracks"
      [] body.type = "waypoint" -> "owntracks:waypoint"
      [] body.type = "transition" -> "owntracks:transition"
      [] OTHER -> IF body.source \in {"undefined", "null"} THEN "manual" ELSE body.source

Present(v) == v.k \notin {"undefined", "null"}

\* C10: a message with lat and lon, of type location, waypoint or transition,
\* or without a type tag, persists exactly one record, with the source tag of
\* its variant (owntracks, owntracks:waypoint, owntracks:transition; the
\* caller's source or manual), and is answered with an empty list (status ok
\* for the untagged one), the store being available.
C10_Dispatch ==
    [][(/\ Posted
        /\ post'.body.type \in Tracked \cup {"undefined"}
        /\ Present(post'.body.lat) /\ Present(post'.body.lon)
        /\ ~post'.fault)
       => /\ Len(store') = Len(store) + 1
          /\ SubSeq(store', 1, Len(store)) = store
          /\ post'.sent = 1
          /\ LET r == store'[Len(store')] IN
             /\ r.source = SourceOf(post'.body)
             /\ r.lat = post'.body.lat /\ r.lon = post'.body.lon
             /\ (r.lat.k = "number" /\ r.lon.k = "number") =>
                   r.h3_res7 # NoCell /\ r.h3_res9 # NoCell
          /\ post'.body.type \in Tracked => post'.code = 200 /\ post'.out = "[]"
          /\ post'.body.type = "undefined" => post'.code = 201 /\ post'.out = "ok"]_vars

\* a transition event and its row
C10_Witness ==
    /\ post.n > 0 /\ post.body.type = "transition" /\ post.code = 200 /\ post.out = "[]"
    /\ Len(store) > 0
    /\ store[Len(store)].source = "owntracks:transition"
    /\ store[Len(store)].h3_res7 = latLngToCell(35, 139, 7)

(***************************************************************************)
(* Frame of the store.                                                     *)
(***************************************************************************)
\* every column but the two index columns
SameButIndex(r1, r2) ==
    [r1 EXCEPT !.h3_res7 = NoCell, !.h3_res9 = NoCell]
        = [r2 EXCEPT !.h3_res7 = NoCell, !.h3_res9 = NoCell]

\* the ids of the selection process p is working through
SelectedBy(p) == {bf[p].rows[j].id : j \in 1..Len(bf[p].rows)}

\* C11: no step removes a row or changes a column other than h3_res7 and
\* h3_res9 of a row already stored; a row changes only in a page write of a
\* backfill that selected it; a step of POST /locations or of the batch import
\* only appends; a read leaves the table as it is.
C11_Frame ==
    [][/\ Len(store') >= Len(store)
       /\ \A id \in 1..Len(store) :
              /\ SameButIndex(store'[id], store[id])
              /\ store'[id] # store[id] =>
                     \E p \in Procs : /\ bf[p].pc = "loop"
                                      /\ bf'[p].writes = bf[p].writes + 1
                                      /\ id \in SelectedBy(p)
       /\ (post' # post \/ batch' # batch \/ get' # get) =>
              SubSeq(store', 1, Len(store)) = store]_vars

\* a backfill has indexed a row of before the migration, next to a row it did
\* not select
C11_Witness ==
    \E p \in Procs, id, other \in 1..Len(store) :
        /\ bf[p].updated > 0
        /\ id \in SelectedBy(p) /\ store[id].h3_res9 # NoCell
        /\ other \notin SelectedBy(p) /\ store[other].h3_res9 # NoCell

(***************************************************************************)
(* Backfill: a page the store rejects.                                     *)
(***************************************************************************)
\* process p submits a page and the store rejects it: a write more, no row
\* more updated
PageRejected(p) ==
    /\ bf[p].pc = "loop"
    /\ bf'[p].writes = bf[p].writes + 1
    /\ bf'[p].updated = bf[p].updated

\* C12: a backfill invocation whose page write the store rejects does not
\* abort: it goes on to its remaining pages or to the re-count that builds its
\* status/updated/remaining response.
C12_PageContained ==
    [][\A p \in Procs : PageRejected(p) => bf'[p].pc \in {"loop", "count"}]_vars

\* an invocation ended by the rejection of its first page
C12_Aborted ==
    \E p \in Procs : bf[p].pc = "failed" /\ bf[p].writes = 1 /\ bf[p].updated = 0

(***************************************************************************)
(* Batch import: a body that is no wrapper.                                *)
(***************************************************************************)
\* C13: a batch import whose body is not a wrapper holding a list under
\* `locations` is answered with a client error (400) and issues no store
\* operation.
C13_MalformedBatchInput ==
    (batch.pc = "done" /\ batch.shape # "list") =>
        /\ batch.resp.code = 400
        /\ batch.pages = <<>>
        /\ Len(store) = batch.size0

\* the body `null` has been answered
C13_NullBody == batch.pc = "done" /\ batch.shape = "null" /\ batch.resp.code = 500

(***************************************************************************)
(* GET /locations: the time bounds.                                        *)
(***************************************************************************)
\* a timestamp in one of the three encodings: a date, T, a time and Z, +hh:mm
\* or +hhmm
Encoded(ts) == Len(ts) >= 20 /\ CharAt(ts, 11) = "T" /\ ParseTime(TS_NORM(ts)).ok

\* the instant of an encoded timestamp, and the order of two instants
InstantOf(ts) == ParseTime(TS_NORM(ts))
NotAfter(t1, t2) == t1.min < t2.min \/ (t1.min = t2.min /\ t1.sec <= t2.sec)

Kept(id) == \E i \in 1..Len(get.locations) : get.locations[i].id = id

Bound(param) == param = "null" \/ Encoded(param)

\* the instant `days` days before now
DaysAgo(days) == [ParseTime(Now) EXCEPT !.min = @ - days.v * 1440]

\* C14: in a GET /locations with an `after` or a `before` bound and no filter
\* on source or place, stored timestamps and bounds being in any of the three
\* encodings, a record is returned exactly when its instant is not before
\* `after` (not before now minus `days` without an `after`) and not after
\* `before`.
C14_SameCanonicalForm ==
    (/\ get.op = "locations" /\ get.code = 200 /\ ~get.meta.present
     /\ ~Truthy(get.q.source) /\ get.count < get.limit.v /\ ~get.days.nan
     /\ Bound(get.q.after) /\ Bound(get.q.before)
     /\ get.q.after # "null" \/ get.q.before # "null") =>
        \A id \in 1..Len(store) :
            Encoded(store[id].timestamp) =>
                (Kept(id) <=>
                    /\ NotAfter(IF get.q.after = "null" THEN DaysAgo(get.days)
                                                         ELSE InstantOf(get.q.after),
                                InstantOf(store[id].timestamp))
                    /\ get.q.before # "null" =>
                           NotAfter(InstantOf(store[id].timestamp), InstantOf(get.q.before)))

\* a record of 05:00Z is returned for before = 00:00Z of the same day
C14_BoundNotNormalized ==
    /\ get.op = "locations" /\ get.code = 200
    /\ get.q.after = "null" /\ get.q.before = "2024-01-01T00:00:00Z"
    /\ \E i \in 1..Len(get.locations) :
           get.locations[i].row.timestamp = "2024-01-01T05:00:00Z"

(***************************************************************************)
(* The timestamp normalizer.                                               *)
(***************************************************************************)
\* the string ends in a sign followed by four digits
EndsInOffset(s) ==
    /\ Len(s) >= 5
    /\ CharAt(s, Len(s) - 4) \in {"+", "-"}
    /\ \A i \in (Len(s) - 3)..Len(s) : CharAt(s, i) \in Digits

\* the string with a colon before its last two characters
WithColon(s) == SubSeq(s, 1, Len(s) - 2) \o ":" \o SubSeq(s, Len(s) - 1, Len(s))

\* C15: the normalizer puts a colon before the last two characters of a string
\* exactly when the string ends in a sign followed by four digits, and returns
\* any other string as it is; applied again to its own result (the colon
\* encoding of a compact offset) it returns that result.
C15_Normalizer ==
    norm.n >= 1 =>
        norm.out = IF EndsInOffset(norm.in) THEN WithColon(norm.in) ELSE norm.in

\* a compact offset normalized, and normalized again
C15_Witness ==
    /\ norm.n = 2
    /\ norm.in = "2024-01-01T12:00:00+0000"
    /\ norm.out = "2024-01-01T12:00:00+00:00"

(***************************************************************************)
(* GET /locations: the radius query.                                       *)
(***************************************************************************)
\* the resolution of an index column
ResolutionOf(column) == IF column = "h3_res7" THEN 7 ELSE 9

\* C16: a radius query filters on h3_res7 exactly when its clamped radius is at
\* least 2 km and on h3_res9 otherwise (radius=2 on h3_res7, radius=1.999 on
\* h3_res9); resolution_used in the meta is the resolution of the column
\* filtered, which is that of the cells searched and of the cells of the rows
\* returned.
C16_Resolution ==
    (get.op = "locations" /\ get.meta.present) =>
        /\ get.filter.column \in {"h3_res7", "h3_res9"}
        /\ get.filter.column = "h3_res7" <=>
               (~get.radiusKm.nan /\ get.radiusKm.v >= 2000)
        /\ get.q.radius = "2" => get.filter.column = "h3_res7"
        /\ get.q.radius = "1.999" => get.filter.column = "h3_res9"
        /\ get.meta.resolution_used = ResolutionOf(get.filter.column)
        /\ \A c \in get.filter.cells : c.res = get.meta.resolution_used
        /\ \A i \in 1..Len(get.locations) :
               get.locations[i].row[get.filter.column].res = get.meta.resolution_used

\* a query of radius 2 has returned a row by its h3_res7 cell
C16_Witness ==
    /\ get.op = "locations" /\ get.meta.present
    /\ get.q.radius = "2" /\ get.meta.resolution_used = 7
    /\ get.count > 0

(***************************************************************************)
(* GET /locations: the effective parameters.                               *)
(***************************************************************************)
\* C17: whatever the days, limit and radius parameters are (absent, not a
\* number, out of range), the values GET /locations works with are numbers in
\* range: days in 1..365 (7 when absent), limit in 1..10000 (1000 when absent)
\* and, in a radius query, the radius in 0.1..50 km (1 when absent).
C17_EffectiveParameters ==
    get.op = "locations" =>
        /\ ~get.days.nan /\ get.days.v \in 1..365
        /\ get.q.days = "null" => get.days.v = 7
        /\ ~get.limit.nan /\ get.limit.v \in 1..10000
        /\ get.q.limit = "null" => get.limit.v = 1000
        /\ get.filter.column # "" =>
               /\ ~get.radiusKm.nan /\ get.radiusKm.v \in 100..50000
               /\ get.q.radius = "null" => get.radiusKm.v = 1000

\* days=abc: the effective days is NaN and the row of the last day is not
\* returned
C17_NaNDays ==
    /\ get.op = "locations" /\ get.q.days = "abc" /\ get.days.nan
    /\ get.code = 200 /\ get.count = 0
    /\ \E id \in 1..Len(store) : store[id].timestamp = "2024-01-01T05:00:00Z"

(***************************************************************************)
(* GET /locations: the response.                                           *)
(***************************************************************************)
\* C19: the locations of a GET /locations response are rows of the table, each
\* once, each within the `after` and `before` bounds given, of the source
\* given and with its index cell among the cells searched when a place is
\* given; they are in descending order of their normalized timestamps; count
\* is their number and at most limit; meta is there exactly when near_lat and
\* near_lon are.
C19_QueryResult ==
    (get.op = "locations" /\ get.code = 200) =>
        /\ \A i \in 1..Len(get.locations) :
               LET r == get.locations[i].row IN
               /\ get.locations[i].id \in 1..Len(store)
               /\ store[get.locations[i].id] = r
               /\ (Encoded(get.q.after) /\ Encoded(r.timestamp)) =>
                      NotAfter(InstantOf(get.q.after), InstantOf(r.timestamp))
               /\ (Encoded(get.q.before) /\ Encoded(r.timestamp)) =>
                      NotAfter(InstantOf(r.timestamp), InstantOf(get.q.before))
               /\ Truthy(get.q.source) => r.source = get.q.source
               /\ get.meta.present => r[get.filter.column] \in get.filter.cells
        /\ \A i, j \in 1..Len(get.locations) :
               i < j => /\ get.locations[i].id # get.locations[j].id
                        /\ KeyGE(TS_UTC(get.locations[i].row.timestamp),
                                 TS_UTC(get.locations[j].row.timestamp))
        /\ get.count = Len(get.locations)
        /\ get.count <= get.limit.v
        /\ get.meta.present <=> (get.q.near_lat # "null" /\ get.q.near_lon # "null")

\* a record of 12:00+0900 (03:00Z) is among the locations returned for
\* before = 00:00Z of that day
C19_OutsideBound ==
    /\ get.op = "locations" /\ get.code = 200
    /\ get.q.before = "2024-01-01T00:00:00Z"
    /\ \E i \in 1..Len(get.locations) :
           get.locations[i].row.timestamp = "2024-01-01T12:00:00+0900"

(***************************************************************************)
(* GET /locations/latest.                                                  *)
(***************************************************************************)
\* C20: GET /locations/latest changes nothing in the table; served over an
\* empty table it answers 404 "No location data found" with no record; served
\* over a table with rows it answers with exactly one of them, one whose
\* normalized timestamp no other row's exceeds (a row whose timestamp is no
\* time value only when no row has one).
C20_Latest ==
    /\ [](get.op = "latest" /\ get.code # 500 =>
            IF Len(store) = 0
            THEN /\ get.code = 404 /\ get.error = "No location data found"
                 /\ get.locations = <<>>
            ELSE /\ get.code = 200 /\ Len(get.locations) = 1
                 /\ get.locations[1].id \in 1..Len(store)
                 /\ store[get.locations[1].id] = get.locations[1].row
                 /\ \A id \in 1..Len(store) :
                        Encoded(store[id].timestamp) =>
                            /\ Encoded(get.locations[1].row.timestamp)
                            /\ NotAfter(InstantOf(store[id].timestamp),
                                        InstantOf(get.locations[1].row.timestamp)))
    /\ [][get'.op = "latest" /\ get'.n # get.n => store' = store]_vars

\* the latest of two rows is the second one
C20_Witness ==
    /\ get.op = "latest" /\ get.code = 200
    /\ Len(store) = 2 /\ get.locations[1].id = 2
    /\ TS_UTC(store[1].timestamp) # TS_UTC(store[2].timestamp)

\* the calls of one request, by their place in the log
CallsOf(who, req) ==
    {c \in DOMAIN calls : calls[c].who = who /\ calls[c].req = req}

\* the calls of a request that carry position k of the request's list
Carrying(who, req, k) ==
    {c \in CallsOf(who, req) : k \in calls[c].offset .. calls[c].offset + calls[c].size - 1}

\* a later call of a request was issued once every earlier one had come back,
\* and it starts at or after the end of every earlier one
OneAtATime ==
    \A c, d \in DOMAIN calls :
        (c < d /\ calls[c].who = calls[d].who /\ calls[c].req = calls[d].req) =>
            /\ calls[c].state # "flight"
            /\ calls[d].offset >= calls[c].offset + calls[c].size

\* every call carries between 1 and 100 statements
PageSized == \A c \in DOMAIN calls : calls[c].size \in 1..batchSize

\* no position of a request's list is carried by two calls
AtMostOnce ==
    /\ \A k \in 0..(Len(batch.locations) - 1) : Cardinality(Carrying(0, batch.n, k)) <= 1
    /\ \A p \in Procs : \A k \in 0..(Len(bf[p].rows) - 1) :
           Cardinality(Carrying(p, bf[p].n, k)) <= 1

\* an answered batch import has carried every record of its list
ImportCarriedAll ==
    batch.pc = "done" =>
        \A k \in 0..(Len(batch.locations) - 1) : Carrying(0, batch.n, k) # {}

\* a backfill that has ended has carried every row it selected
BackfillCarriedAll ==
    \A p \in Procs : bf[p].pc \in {"done", "failed"} =>
        \A k \in 0..(Len(bf[p].rows) - 1) : Carrying(p, bf[p].n, k) # {}

\* C21: within one batch import and within one backfill invocation the pages are
\* submitted one after the other: a page's batch call is issued only after the
\* call of the page before it has resolved or rejected, so at most one call of
\* the request is in flight; every call carries between 1 and 100 statements;
\* and every input record or selected row is carried by exactly one call.
C21_Pages ==
    /\ OneAtATime
    /\ PageSized
    /\ AtMostOnce
    /\ ImportCarriedAll
    /\ BackfillCarriedAll

\* a backfill over 250 selected rows ended by the rejection of its first page:
\* the rows of the second and third page were carried by no call
C21_Skipped ==
    /\ bf[1].pc = "failed" /\ Len(bf[1].rows) = 250
    /\ CallsOf(1, bf[1].n) # {}
    /\ \A c \in CallsOf(1, bf[1].n) : calls[c].offset = 0 /\ calls[c].state = "failed"
    /\ Carrying(1, bf[1].n, 100) = {}

(***************************************************************************)
(* GET /locations: the ring count.                                         *)
(***************************************************************************)
\* the edge, in metres, of the resolution a filter searches
EdgeOf(column) == IF column = "h3_res7" THEN 1406 ELSE 201

\* a radius query served with a radius of the clamped range
RingsServed ==
    /\ get.op = "locations" /\ get.meta.present
    /\ ~get.radiusKm.nan /\ get.radiusKm.v \in 100..50000

\* the ring count is a number from 1 to 10
RingsBounded ==
    RingsServed => ~get.filter.k.nan /\ get.filter.k.v \in 1..10

\* a radius of more than 10 edges is served with 10 rings
RingsCapped ==
    (RingsServed /\ get.radiusKm.v > 10 * EdgeOf(get.filter.column)) => get.filter.k.v = 10

\* the ring count is the ceiling of radius / edge or one more, at most 10
RingsNearCeiling ==
    RingsServed =>
        LET c == CeilDiv(get.radiusKm.v, EdgeOf(get.filter.column))
        IN get.filter.k.v \in {Min(c, 10), Min(c + 1, 10)}

Indexed(r) == r.h3_res7 # NoCell \/ r.h3_res9 # NoCell

\* the index columns of every indexed row are the cells of the row's own lat, lon
C23_OwnCells ==
    \A id \in 1..Len(store) :
        Indexed(store[id]) =>
            /\ store[id].lat.k = "number" /\ store[id].lon.k = "number"
            /\ store[id].h3_res7 = latLngToCell(store[id].lat.n, store[id].lon.n, 7)
            /\ store[id].h3_res9 = latLngToCell(store[id].lat.n, store[id].lon.n, 9)

\* no step changes an index column that is set, or sets it back to NULL
C23_Kept ==
    \A id \in 1..Len(store) :
        Indexed(store[id]) =>
            /\ id <= Len(store')
            /\ store'[id].h3_res7 = store[id].h3_res7
            /\ store'[id].h3_res9 = store[id].h3_res9

\* C23: in every state of the table, after any interleaving of POST /locations,
\* batch imports and concurrent backfills, a row whose index columns are set has
\* in h3_res7 and h3_res9 the cells of its own lat and lon at resolution 7 and
\* 9, and index columns that are set are never changed and never NULL again.
C23_IndexOfOwnPoint == []C23_OwnCells /\ [][C23_Kept]_vars

\* a row of before the migration that two backfills wrote one after the other,
\* beside a row indexed at its insert
C23_Witness ==
    /\ bf[1].pc = "done" /\ bf[2].pc = "done"
    /\ bf[1].updated > 0 /\ bf[2].updated > 0
    /\ \E id \in Written(1) \cap Written(2) :
          store[id].op = "legacy" /\ Indexed(store[id])
    /\ \E id \in 1..Len(store) : WrittenByIngestion(store[id]) /\ Indexed(store[id])

(***************************************************************************)
(* Backfill: after completion.                                             *)
(***************************************************************************)
\* C24: once a backfill invocation has returned status complete, every
\* backfill invoked after it also returns complete with updated = 0 and
\* remaining = 0, whatever POST /locations and batch imports ran in between:
\* they leave no row with lat and lon present and h3_res7 NULL.
C24_StableCompletion ==
    (Completed /\ bf[2].pc = "done") =>
        /\ bf[2].resp.status = "complete"
        /\ bf[2].resp.updated = 0
        /\ bf[2].resp.remaining = 0

\* the table holds no row that an ingestion wrote with a lat or lon that is no number
NumericIngestion ==
    \A id \in 1..Len(store) :
        WrittenByIngestion(store[id]) =>
            store[id].lat.k = "number" /\ store[id].lon.k = "number"

\* the same over tables whose ingested rows all have numeric coordinates
StableWhenNumeric == NumericIngestion => C24_StableCompletion

\* completion, then a batch import of a location whose lat is no number, then
\* a backfill that selects the row, writes NULL again and answers in_progress
C24_Reopened ==
    /\ Completed /\ bf[2].pc = "done"
    /\ batch.pc = "done" /\ batch.imported = 2
    /\ \E id \in 1..Len(store) : store[id] = BatchRow(TextLoc, batch.req)
    /\ bf[2].resp.status = "in_progress"
    /\ bf[2].resp.updated = 1 /\ bf[2].resp.remaining = 1

(***************************************************************************)
(* GET /locations: the time lower bound.                                   *)
(***************************************************************************)
\* a served query with no `before` and no `source`, whose rows were all returned
LowerBoundOnly ==
    /\ get.op = "locations" /\ get.code = 200 /\ get.count < get.limit.v
    /\ ~Truthy(get.q.before) /\ ~Truthy(get.q.source)
    /\ Truthy(get.q.after) => Encoded(get.q.after)
    /\ (~Truthy(get.q.after) /\ ~get.meta.present) => ~get.days.nan

\* the rows the place of the query admits: all of them when no place is given
InPlace(r) == get.meta.present => r[get.filter.column] \in get.filter.cells

\* C25: the time lower bound of GET /locations is one of three: with `after`
\* given, a record is returned exactly when it is not before `after`, whatever
\* `days` is; with no `after` and no place, exactly when it is not before now
\* minus `days` days; with no `after` and a place, no time lower bound applies
\* and records older than `days` days are returned.
C25_LowerBound ==
    LowerBoundOnly =>
        \A id \in 1..Len(store) :
            (Encoded(store[id].timestamp) /\ InPlace(store[id])) =>
                (Kept(id) <=>
                    IF Truthy(get.q.after)
                    THEN NotAfter(InstantOf(get.q.after), InstantOf(store[id].timestamp))
                    ELSE IF ~get.meta.present
                    THEN NotAfter(DaysAgo(get.days), InstantOf(store[id].timestamp))
                    ELSE TRUE)

\* the same three cases with the comparison the store makes: the text
\* datetime(TS_NORM(timestamp)) against the `after` string as given
LowerBoundAsCompared ==
    LowerBoundOnly =>
        \A id \in 1..Len(store) :
            InPlace(store[id]) =>
                (Kept(id) <=>
                    IF Truthy(get.q.after)
                    THEN TextGE(TS_UTC(store[id].timestamp), get.q.after)
                    ELSE IF ~get.meta.present
                    THEN TextGE(TS_UTC(store[id].timestamp), NowMinusDays(get.days.v))
                    ELSE TRUE)

\* after = 12:00+0900, days absent: the record of 12:00+09:00 of that day, the
\* instant of the bound, is not among the locations returned
C25_AfterMissed ==
    /\ LowerBoundOnly /\ ~get.meta.present
    /\ get.q.after = "2024-01-01T12:00:00+0900" /\ get.q.days = "null"
    /\ \E id \in 1..Len(store) :
           store[id].timestamp = "2024-01-01T12:00:00+09:00" /\ ~Kept(id)

\* a place, no `after`, days = 1: the record of 2023-12-20 is returned
OlderReturned ==
    /\ LowerBoundOnly /\ get.meta.present
    /\ get.q.after = "null" /\ get.q.days = "1"
    /\ \E id \in 1..Len(store) :
           store[id].timestamp = "2023-12-20T00:00:00Z" /\ Kept(id)

====
